---- MODULE Spec2Model ----
(***************************************************************************)
(* Verification model of nextcnc: the token-based G-code parser and modal  *)
(* interpreter (core/parser_new.py, core/ast_nodes.py, core/lexer/tokens.py)*)
(* and the line-based parser (core/parser.py), the lexer                   *)
(* (core/lexer/lexer.py), the machine kinematics (core/kinematics.py),     *)
(* the stock model (simulation/stock_model.py) and the collision detector  *)
(* (simulation/collision.py).                                              *)
(*                                                                         *)
(* Numbers.  Coordinates, offsets and feeds are Python floats in the code; *)
(* the model uses integers.  A units scale is kept in tenths (1.0 is 10,   *)
(* 25.4 is 254) so that the inch conversion is a real multiplication and   *)
(* not the identity.                                                       *)
(*                                                                         *)
(* Objects.  numpy arrays and ModalStateNode instances are mutable objects *)
(* that the code copies, clones and assigns by reference.  They live in an *)
(* explicit heap; variables and segment fields hold addresses, so sharing  *)
(* an object and copying it are different things in the model.             *)
(***************************************************************************)
EXTENDS Integers, Sequences, FiniteSets, TLC

VARIABLES
    tokens,       \* GCodeParser.tokens: the token list given to the parser
    pos,          \* GCodeParser.pos (0-based)
    units_scale,  \* GCodeParser.units_scale, in tenths
    program,      \* the ProgramNode returned by parse()
    heap,         \* arrays: numpy arrays; nodes: ModalStateNode objects
    modal,        \* address of self.modal.state
    position,     \* address of the local array `position` (0: not bound)
    segments,     \* the list `segments` of interpret_to_segments / parse_string
    blockIdx,     \* position of the for-loop in program.blocks / the lines
    pc,           \* "init", "interp", "line", "done"
    mode,         \* which parser is run: "token" or "line"
    lines,        \* parse_string (parser.py): content.splitlines(), as token lists
    args,         \* parse_string (parser.py): initial_position and metric
    lexer,        \* the GCodeLexer object: text, pos, line, column
    lexed,        \* a run of the lexer: the tokens so far and how the run stands
    kin,          \* the Kinematics3Axis object: config, wcs, MachineState objects
    held,         \* what the caller of the kinematics holds: returned states, points
    board,        \* the TriDexelBoard object: config, xy_board, removed volume
    removed,      \* the last apply_cutter call: its arguments and the value it returned
    sim,          \* the StockSimulator object (its board is `board`) and its caller
    bboxes,       \* the BoundingBox objects of colliders and tree nodes, by address
    detector,     \* the CollisionDetector object (its aabb_tree is `tree`)
    tree,         \* the AABBTree object: max_depth, root
    found         \* what the caller of the detector or tree holds: the last call, its result

parserVars == <<tokens, pos, units_scale, program, heap, modal, position, segments,
                blockIdx, pc, mode, lines, args>>
lexerVars == <<lexer, lexed>>
machineVars == <<kin, held>>
stockVars == <<board, removed, sim>>
collisionVars == <<bboxes, detector, tree, found>>
vars == <<parserVars, lexerVars, machineVars, stockVars, collisionVars>>

----------------------------------------------------------------------------
(* Optional values: None is the empty sequence, a value v is <<v>>.         *)
None == <<>>
Some(v) == <<v>>
IsNone(o) == o = <<>>
Val(o) == o[1]

(* An object that has not been constructed is None.                         *)
NoParser == /\ tokens = None /\ pos = 0 /\ units_scale = 0 /\ program = None
            /\ heap = None /\ modal = 0 /\ position = 0 /\ segments = None
            /\ blockIdx = 0 /\ pc = "none" /\ mode = "none" /\ lines = None
            /\ args = None
NoLexer == lexer = None /\ lexed = None
NoMachine == kin = None /\ held = None
NoStock == board = None /\ removed = None /\ sim = None
NoCollision == bboxes = None /\ detector = None /\ tree = None /\ found = None

(* Units scales in tenths.                                                  *)
MmScale == 10
InchScale == 254
\* token.value * units_scale
Times(v, scale) == (v * scale) \div MmScale

----------------------------------------------------------------------------
(* Tokens (lexer/tokens.py).  A token is [type, value]; type is the name of *)
(* the TokenType without the ADDRESS_ prefix.                               *)
Tok(t, v) == [type |-> t, value |-> v]
EOF == Tok("EOF", 0)
NL == Tok("NEWLINE", 0)
SKIP == Tok("BLOCK_SKIP", 0)
CMT == Tok("COMMENT", 0)

\* G_CODE_MODAL_GROUPS / get_modal_group
get_modal_group(g) ==
    IF g \in {4, 10, 28, 30, 53} THEN "GROUP_00_NON_MODAL"
    ELSE IF g \in {0, 1, 2, 3} THEN "GROUP_01_MOTION"
    ELSE IF g \in {17, 18, 19} THEN "GROUP_02_PLANE"
    ELSE IF g \in {90, 91} THEN "GROUP_03_DISTANCE"
    ELSE IF g \in {93, 94, 95} THEN "GROUP_05_FEED"
    ELSE IF g \in {20, 21} THEN "GROUP_06_UNITS"
    ELSE IF g \in {40, 41, 42} THEN "GROUP_07_CUTTER_COMP"
    ELSE IF g \in {43, 44, 49} THEN "GROUP_08_TOOL_LENGTH"
    ELSE IF g \in {98, 99} THEN "GROUP_09_CANNED_RETURN"
    ELSE IF g \in {73, 74, 76} \cup (80..89) THEN "GROUP_10_CANNED"
    ELSE IF g \in 54..59 THEN "GROUP_12_WCS"
    ELSE IF g \in {52, 92} THEN "GROUP_13_COORD_SYS"
    ELSE "None"

----------------------------------------------------------------------------
(* The heap.                                                                *)
EmptyHeap == [arrays |-> <<>>, nodes |-> <<>>]

\* np.zeros(3) / np.array(...): a new array object at address Len(arrays) + 1
NewArray(h, v) == [h EXCEPT !.arrays = Append(@, v)]
\* ndarray.copy()
copy(h, a) == NewArray(h, h.arrays[a])
\* a[i] = v on the array object at address a (i is 1-based here)
SetItem(h, a, i, v) == [h EXCEPT !.arrays[a][i] = v]

\* ModalStateNode(): the dataclass defaults, with a fresh zero position
ModalStateNode(h) ==
    [arrays |-> Append(h.arrays, <<0, 0, 0>>),
     nodes |-> Append(h.nodes,
          [motion_mode |-> 1, plane |-> 17, absolute |-> TRUE, metric |-> TRUE,
           wcs |-> 54, feed_per_minute |-> TRUE, cutter_comp |-> 40,
           tool_length_comp |-> 49, canned_return |-> 98, canned_cycle |-> 80,
           position |-> Len(h.arrays) + 1, feed_rate |-> 0, tool_id |-> 0,
           spindle_rpm |-> 0, spindle_on |-> FALSE])]

\* a clone that hands back the object itself
clone_shared(h, m) == [heap |-> h, ref |-> m]

\* ModalStateNode.clone: a new node with the same fields and a copied position
clone(h, m) ==
    [heap |-> [arrays |-> Append(h.arrays, h.arrays[h.nodes[m].position]),
               nodes |-> Append(h.nodes,
                                [h.nodes[m] EXCEPT !.position = Len(h.arrays) + 1])],
     ref |-> Len(h.nodes) + 1]

\* ModalStateMachine.update_from_g_code on the node at address m
update_from_g_code(h, m, g) ==
    LET group == get_modal_group(g)
    IN IF group = "GROUP_01_MOTION" THEN [h EXCEPT !.nodes[m].motion_mode = g]
       ELSE IF group = "GROUP_02_PLANE" THEN [h EXCEPT !.nodes[m].plane = g]
       ELSE IF group = "GROUP_03_DISTANCE"
            THEN [h EXCEPT !.nodes[m].absolute = (g = 90)]
       ELSE IF group = "GROUP_06_UNITS"
            THEN [h EXCEPT !.nodes[m].metric = (g = 21)]
       ELSE IF group = "GROUP_12_WCS" THEN [h EXCEPT !.nodes[m].wcs = g]
       ELSE IF group = "GROUP_07_CUTTER_COMP"
            THEN [h EXCEPT !.nodes[m].cutter_comp = g]
       ELSE IF group = "GROUP_08_TOOL_LENGTH"
            THEN [h EXCEPT !.nodes[m].tool_length_comp = g]
       ELSE IF group = "GROUP_09_CANNED_RETURN"
            THEN [h EXCEPT !.nodes[m].canned_return = g]
       ELSE IF group = "GROUP_10_CANNED"
            THEN [h EXCEPT !.nodes[m].canned_cycle = g]
       ELSE h

----------------------------------------------------------------------------
(* GCodeParser: token cursor (parser_new.py).                               *)
current_token(toks, p) == IF p >= Len(toks) THEN toks[Len(toks)] ELSE toks[p + 1]
advance(toks, p) == IF p < Len(toks) - 1 THEN p + 1 ELSE p

RECURSIVE skip_newlines(_, _)
skip_newlines(toks, p) ==
    IF current_token(toks, p).type = "NEWLINE"
    THEN skip_newlines(toks, advance(toks, p))
    ELSE p

RECURSIVE skip_comments(_, _)
skip_comments(toks, p) ==
    IF current_token(toks, p).type \in {"COMMENT", "COMMENT_SEMI"}
    THEN skip_comments(toks, advance(toks, p))
    ELSE p

skip_whitespace(toks, p) == skip_comments(toks, skip_newlines(toks, p))

(* AST nodes (ast_nodes.py).  A word is [cls, letter, value, tok]: cls is   *)
(* the node class, value the stored value; tok is a history field, the      *)
(* value of the token the word was built from.  A block's comment is the    *)
(* list of the comment tokens joined into it (empty: no comment).           *)
WordNode(cls, letter, value, tok) ==
    [cls |-> cls, letter |-> letter, value |-> value, tok |-> tok]
BlockNode == [block_number |-> None, words |-> <<>>, comment |-> <<>>,
              block_skip |-> FALSE]
ProgramNode == [program_number |-> None, blocks |-> <<>>]
AddWord(block, w) == [block EXCEPT !.words = Append(@, w)]

CoordLetters == {"X", "Y", "Z", "I", "J", "K", "R"}

\* parse_block, ADDRESS_M: M3/M4 and M5 set spindle_on of the parser's state
parse_m_code(h, m, v) ==
    IF v \in {3, 4} THEN [h EXCEPT !.nodes[m].spindle_on = TRUE]
    ELSE IF v = 5 THEN [h EXCEPT !.nodes[m].spindle_on = FALSE]
    ELSE h

\* the while-loop of parse_block: words until NEWLINE or EOF
RECURSIVE parse_words(_, _, _, _, _, _)
parse_words(toks, p, h, m, scale, block) ==
    LET t == current_token(toks, p)
        q == advance(toks, p)
    IN IF t.type \in {"NEWLINE", "EOF"}
       THEN [pos |-> p, heap |-> h, block |-> block]
       ELSE IF t.type \in {"COMMENT", "COMMENT_SEMI"}
       THEN parse_words(toks, q, h, m, scale,
                        [block EXCEPT !.comment = Append(@, t.value)])
       ELSE IF t.type = "G"
       THEN parse_words(toks, q, update_from_g_code(h, m, t.value), m, scale,
                        AddWord(block, WordNode("GCodeNode", "G", t.value, t.value)))
       ELSE IF t.type = "M"
       THEN parse_words(toks, q, parse_m_code(h, m, t.value), m, scale,
                        AddWord(block, WordNode("MCodeNode", "M", t.value, t.value)))
       ELSE IF t.type \in CoordLetters
       THEN parse_words(toks, q, h, m, scale,
                        AddWord(block, WordNode("CoordinateNode", t.type,
                                                Times(t.value, scale), t.value)))
       ELSE IF t.type = "F"
       THEN parse_words(toks, q, [h EXCEPT !.nodes[m].feed_rate = t.value], m, scale,
                        AddWord(block, WordNode("FeedNode", "F", t.value, t.value)))
       ELSE IF t.type = "S"
       THEN parse_words(toks, q, [h EXCEPT !.nodes[m].spindle_rpm = t.value], m, scale,
                        AddWord(block, WordNode("SpindleNode", "S", t.value, t.value)))
       ELSE IF t.type = "T"
       THEN parse_words(toks, q, [h EXCEPT !.nodes[m].tool_id = t.value], m, scale,
                        AddWord(block, WordNode("ToolNode", "T", t.value, t.value)))
       ELSE parse_words(toks, q, h, m, scale, block)

\* parse_block, after the word loop (r is its result): "Skip newline", and
\* the block, or None when it has no words and no comment
parse_block_end(toks, r) ==
    [pos |-> IF current_token(toks, r.pos).type = "NEWLINE"
             THEN advance(toks, r.pos) ELSE r.pos,
     heap |-> r.heap,
     block |-> IF r.block.words # <<>> \/ r.block.comment # <<>>
               THEN Some(r.block) ELSE None]

\* GCodeParser.parse_block: block skip, block number, then the words
parse_block(toks, p, h, m, scale) ==
    LET skip == current_token(toks, p).type = "BLOCK_SKIP"
        p1 == IF skip THEN advance(toks, p) ELSE p
        hasN == current_token(toks, p1).type = "N"
    IN parse_block_end(toks,
         parse_words(toks, IF hasN THEN advance(toks, p1) ELSE p1, h, m, scale,
                     [BlockNode EXCEPT
                        !.block_skip = skip,
                        !.block_number = IF hasN THEN Some(current_token(toks, p1).value)
                                         ELSE None]))

\* parse: `if block: program.blocks.append(block)`
append_block(prog, block) ==
    IF IsNone(block) THEN prog ELSE [prog EXCEPT !.blocks = Append(@, Val(block))]

\* the while-loop of GCodeParser.parse; r is the result of the last
\* parse_block (position and heap), prog the program so far
RECURSIVE parse_loop(_, _, _, _, _)
parse_loop_block(toks, r, m, scale, prog) ==
    parse_loop(toks, r, m, scale, append_block(prog, r.block))

parse_loop(toks, r, m, scale, prog) ==
    IF current_token(toks, r.pos).type = "EOF"
    THEN [pos |-> r.pos, heap |-> r.heap, program |-> prog]
    ELSE LET p1 == skip_whitespace(toks, r.pos)
             isO == current_token(toks, p1).type = "O"
         IN IF current_token(toks, p1).type = "EOF"
            THEN [pos |-> p1, heap |-> r.heap, program |-> prog]
            ELSE parse_loop_block(toks,
                   parse_block(toks,
                               IF isO THEN skip_comments(toks, advance(toks, p1)) ELSE p1,
                               r.heap, m, scale),
                   m, scale,
                   IF isO THEN [prog EXCEPT !.program_number =
                                  Some(current_token(toks, p1).value)]
                   ELSE prog)

\* GCodeParser.parse
parse(toks, p, h, m, scale) ==
    parse_loop(toks, [pos |-> p, heap |-> h], m, scale, ProgramNode)

----------------------------------------------------------------------------
(* Motion commands and toolpath segments (ast_nodes.py).                    *)
RapidMoveNode(x, y, z) ==
    [type |-> "rapid", x |-> x, y |-> y, z |-> z, i |-> None, j |-> None,
     k |-> None, r |-> None, feed |-> None, clockwise |-> FALSE]
LinearMoveNode(x, y, z, feed) ==
    [type |-> "linear", x |-> x, y |-> y, z |-> z, i |-> None, j |-> None,
     k |-> None, r |-> None, feed |-> feed, clockwise |-> FALSE]
ArcMoveNode(clockwise, x, y, z, i, j, k, r, feed) ==
    [type |-> "arc", x |-> x, y |-> y, z |-> z, i |-> i, j |-> j,
     k |-> k, r |-> r, feed |-> feed, clockwise |-> clockwise]

\* end_pos[axis] = v if modal.absolute else start_pos[axis] + v   (when v is given)
set_axis(h, end, start, axis, v, absolute) ==
    IF IsNone(v) THEN h
    ELSE SetItem(h, end, axis,
                 IF absolute THEN Val(v) ELSE h.arrays[start][axis] + Val(v))

\* the three axis assignments on the array at address end
set_axes(h, end, start, move, absolute) ==
    set_axis(set_axis(set_axis(h, end, start, 1, move.x, absolute),
                      end, start, 2, move.y, absolute),
             end, start, 3, move.z, absolute)

\* the end position computed in place on the start array, without the copy
resolve_end_in_place(h, move, start_pos, absolute) ==
    [heap |-> set_axes(h, start_pos, start_pos, move, absolute), ref |-> start_pos]

\* an end position that adds the given values to the start in both modes
resolve_end_always_adds(h, move, start_pos, absolute) ==
    [heap |-> set_axes(copy(h, start_pos), Len(h.arrays) + 1, start_pos, move, FALSE),
     ref |-> Len(h.arrays) + 1]

\* create_segment_from_move: end_pos = start_pos.copy(), then the given axes
resolve_end(h, move, start_pos, absolute) ==
    [heap |-> set_axes(copy(h, start_pos), Len(h.arrays) + 1, start_pos, move, absolute),
     ref |-> Len(h.arrays) + 1]

\* center[axis] += v   (when v is given)
add_axis(h, a, axis, v) ==
    IF IsNone(v) THEN h ELSE SetItem(h, a, axis, h.arrays[a][axis] + Val(v))

\* create_segment_from_move, "Calculate center": None in radius mode, else
\* start_pos.copy() with every given offset added
arc_center(h, move, start_pos) ==
    IF move.type # "arc" \/ ~IsNone(move.r) THEN [heap |-> h, ref |-> None]
    ELSE [heap |-> add_axis(add_axis(add_axis(copy(h, start_pos),
                                              Len(h.arrays) + 1, 1, move.i),
                                     Len(h.arrays) + 1, 2, move.j),
                            Len(h.arrays) + 1, 3, move.k),
          ref |-> Some(Len(h.arrays) + 1)]

\* create_segment_from_move: 0.0 for a rapid, else
\* move.feed if move.feed is not None else modal.feed_rate
segment_feed(move, modal_feed) ==
    IF move.type = "rapid" THEN 0
    ELSE IF ~IsNone(move.feed) THEN Val(move.feed) ELSE modal_feed

\* create_segment_from_move: motion_type of the segment
motion_type(move) ==
    IF move.type = "arc" THEN (IF move.clockwise THEN "arc_cw" ELSE "arc_ccw")
    ELSE move.type

\* plane=f"G{modal.plane}"; the dataclass default "G17" for the other moves
format_plane(move, plane) ==
    IF move.type # "arc" THEN "G17"
    ELSE IF plane = 17 THEN "G17" ELSE IF plane = 18 THEN "G18" ELSE "G19"

\* create_segment_from_move, the ToolpathSegment(...) call: c is the result
\* of the center step, end the address of end_pos; start_pos.copy() and
\* modal.clone() are made here
build_segment(c, end, move, start_pos, m, block_num) ==
    LET node == c.heap.nodes[m]
        cl == clone(copy(c.heap, start_pos), m)
    IN [heap |-> cl.heap,
        seg |-> [block_number |-> block_num,
                 motion_type |-> motion_type(move),
                 start_pos |-> Len(c.heap.arrays) + 1,
                 end_pos |-> end,
                 feed_rate |-> segment_feed(move, node.feed_rate),
                 tool_id |-> node.tool_id,
                 wcs |-> node.wcs,
                 arc_center |-> c.ref,
                 arc_radius |-> IF move.type = "arc" THEN move.r ELSE None,
                 plane |-> format_plane(move, node.plane),
                 modal |-> cl.ref]]

\* create_segment_from_move, after end_pos (e is the result of that step)
segment_from_end(e, move, start_pos, m, block_num) ==
    build_segment(arc_center(e.heap, move, start_pos), e.ref, move, start_pos, m,
                  block_num)

(* create_segment_from_move.  The result is the new heap and the segment;  *)
(* start_pos, end_pos, arc_center and modal are addresses.                  *)
create_segment_from_move(h, move, start_pos, m, block_num) ==
    segment_from_end(resolve_end(h, move, start_pos, h.nodes[m].absolute),
                     move, start_pos, m, block_num)

----------------------------------------------------------------------------
(* GCodeParser.interpret_to_segments (parser_new.py).                       *)

\* what the word loop of one block collects; heap carries the G-word updates
\* of the live modal state, ended is set by the return at M2/M30
NoWords(h) == [heap |-> h, X |-> None, Y |-> None, Z |-> None, I |-> None,
               J |-> None, K |-> None, R |-> None, feed |-> None,
               has_motion |-> FALSE, ended |-> FALSE]

\* an M word on which the interpreter never returns
is_program_end_never(w) == FALSE

\* `m_code in (2, 30)`
is_program_end(w) == w.value \in {2, 30}

\* `for word in block.words`, from word n on
RECURSIVE scan_words(_, _, _, _)
scan_words(m, words, n, acc) ==
    IF n > Len(words) THEN acc
    ELSE LET w == words[n]
         IN IF w.cls = "GCodeNode"
            THEN scan_words(m, words, n + 1,
                   [acc EXCEPT !.heap = update_from_g_code(acc.heap, m, w.value),
                               !.has_motion = TRUE])
            ELSE IF w.cls = "MCodeNode"
            THEN (IF is_program_end(w)
                  THEN [acc EXCEPT !.ended = TRUE]
                  ELSE scan_words(m, words, n + 1, acc))
            ELSE IF w.cls = "CoordinateNode"
            THEN scan_words(m, words, n + 1, [acc EXCEPT ![w.letter] = Some(w.value)])
            ELSE IF w.cls = "FeedNode"
            THEN scan_words(m, words, n + 1, [acc EXCEPT !.feed = Some(w.value)])
            ELSE scan_words(m, words, n + 1, acc)

\* a move whose arc direction is taken from the wrong G word
make_move_swapped(motion_mode, sc) ==
    IF motion_mode = 0 THEN Some(RapidMoveNode(sc.X, sc.Y, sc.Z))
    ELSE IF motion_mode = 1 THEN Some(LinearMoveNode(sc.X, sc.Y, sc.Z, sc.feed))
    ELSE IF motion_mode \in {2, 3}
    THEN Some(ArcMoveNode(motion_mode = 3, sc.X, sc.Y, sc.Z, sc.I, sc.J, sc.K,
                          sc.R, sc.feed))
    ELSE None

\* "Create motion command based on modal state"; None for another motion mode
make_move(motion_mode, sc) ==
    IF motion_mode = 0 THEN Some(RapidMoveNode(sc.X, sc.Y, sc.Z))
    ELSE IF motion_mode = 1 THEN Some(LinearMoveNode(sc.X, sc.Y, sc.Z, sc.feed))
    ELSE IF motion_mode \in {2, 3}
    THEN Some(ArcMoveNode(motion_mode = 2, sc.X, sc.Y, sc.Z, sc.I, sc.J, sc.K,
                          sc.R, sc.feed))
    ELSE None

(* The interpreter's state between two blocks: the heap, the address of    *)
(* the live modal state, the address of `position`, the segment list, and  *)
(* whether the function has returned.                                       *)
InterpState(h, m, p, segs, done) ==
    [heap |-> h, modal |-> m, position |-> p, segments |-> segs, done |-> done]

\* "Reset state for interpretation": a new ModalStateMachine, position zeros
interpret_reset(h) ==
    InterpState(NewArray(ModalStateNode(h), <<0, 0, 0>>), Len(h.nodes) + 1,
                Len(h.arrays) + 2, <<>>, FALSE)

\* a loop that treats a skip-flagged block like any other
skip_test_off(block) == FALSE

\* `if block.block_skip: continue`
skip_test(block) == block.block_skip

\* segments.append(segment); position = segment.end_pos.copy();
\* self.modal.state.position = position.copy().  cs is the result of
\* create_segment_from_move; blk is a history field of the segment, the
\* index of its block in program.blocks
emit_segment(st, cs, idx) ==
    InterpState([copy(copy(cs.heap, cs.seg.end_pos), Len(cs.heap.arrays) + 1)
                   EXCEPT !.nodes[st.modal].position = Len(cs.heap.arrays) + 2],
                st.modal, Len(cs.heap.arrays) + 1,
                Append(st.segments, cs.seg @@ [blk |-> idx]), FALSE)

\* create_segment_from_move(move, position, self.modal.get_state(), ...);
\* gs is the result of get_state(), a clone
segment_of_state(st, gs, move, block, idx) ==
    emit_segment(st,
                    create_segment_from_move(gs.heap, move, st.position, gs.ref,
                                             block.block_number),
                    idx)

\* the statements after the word loop of a block (sc is what it collected):
\* return at M2/M30, else the move, the segment, the position update
after_words(st, sc, block, idx) ==
    LET move == make_move(sc.heap.nodes[st.modal].motion_mode, sc)
    IN IF sc.ended THEN [st EXCEPT !.heap = sc.heap, !.done = TRUE]
       ELSE IF IsNone(move) THEN [st EXCEPT !.heap = sc.heap]
       ELSE IF IsNone(sc.X) /\ IsNone(sc.Y) /\ IsNone(sc.Z)
       THEN [st EXCEPT !.heap = sc.heap]
       ELSE segment_of_state(st, clone(sc.heap, st.modal), Val(move), block, idx)

\* one iteration of `for block in program.blocks`
interpret_block(st, block, idx) ==
    IF skip_test(block) THEN st
    ELSE after_words(st, scan_words(st.modal, block.words, 1, NoWords(st.heap)),
                     block, idx)

\* the whole loop over blocks[n..], as one function
RECURSIVE interpret_from(_, _, _)
interpret_from(st, blocks, n) ==
    IF st.done \/ n > Len(blocks) THEN [st EXCEPT !.done = TRUE]
    ELSE interpret_from(interpret_block(st, blocks[n], n), blocks, n + 1)

----------------------------------------------------------------------------
(* The line-based parser (parser.py).  The text is given as a token list:   *)
(* a line is the run of tokens between two NEWLINEs, and a word token       *)
(* stands for the text TOKEN_PATTERN matches.  Comment text is taken to     *)
(* hold no letter-number pair.                                              *)

\* content.splitlines(): the token runs between NEWLINEs, EOF dropped
RECURSIVE splitlines(_, _, _)
splitlines(toks, n, cur) ==
    IF n > Len(toks) \/ toks[n].type = "EOF"
    THEN (IF cur = <<>> THEN <<>> ELSE <<cur>>)
    ELSE IF toks[n].type = "NEWLINE" THEN <<cur>> \o splitlines(toks, n + 1, <<>>)
    ELSE splitlines(toks, n + 1, Append(cur, toks[n]))

\* the address letters of TOKEN_PATTERN
PatternLetters == {"G", "M", "T", "X", "Y", "Z", "I", "J", "K", "F", "R", "N",
                   "S", "H", "L", "Q", "P"}

\* line.split(";")[0]: the tokens before the first semicolon comment
RECURSIVE before_semicolon(_, _)
before_semicolon(line, n) ==
    IF n > Len(line) \/ line[n].type = "COMMENT_SEMI" THEN <<>>
    ELSE <<line[n]>> \o before_semicolon(line, n + 1)

\* the loop over TOKEN_PATTERN.finditer: result[letter] = value, last one wins
RECURSIVE match_words(_, _, _)
match_words(line, n, result) ==
    IF n > Len(line) THEN result
    ELSE match_words(line, n + 1,
                     IF line[n].type \in PatternLetters
                     THEN [result EXCEPT ![line[n].type] = Some(line[n].value)]
                     ELSE result)

\* _tokenize_line: a dict address -> value, here a function to optional values
NoTokens == [l \in PatternLetters |-> None]
tokenize_stripped(line) ==
    IF line = <<>> \/ line[1].type = "COMMENT" THEN NoTokens
    ELSE match_words(line, 1, NoTokens)
tokenize_line(raw_line) == tokenize_stripped(before_semicolon(raw_line, 1))

\* ModalState(): the line-based parser's modal state object
ModalState(h) ==
    [arrays |-> Append(h.arrays, <<0, 0, 0>>),
     nodes |-> Append(h.nodes,
          [motion |-> "G01", plane |-> "G17", units |-> "G21", crc |-> "G40",
           tlc |-> "G49", wcs |-> 0, absolute |-> TRUE,
           position |-> Len(h.arrays) + 1, feed_rate |-> None, tool_id |-> 0,
           spindle_rpm |-> 0, spindle_on |-> FALSE])]

\* ModalState.to_dict: the exported fields; position is the address of the
\* copy, which the caller allocates
to_dict(n, position_copy) ==
    [motion |-> n.motion, plane |-> n.plane, units |-> n.units, wcs |-> n.wcs,
     absolute |-> n.absolute, position |-> position_copy,
     feed_rate |-> n.feed_rate, tool_id |-> n.tool_id]

\* _parse_g_code
parse_g_code(h, m, g) ==
    IF g \in {0, 1, 2, 3}
    THEN [h EXCEPT !.nodes[m].motion =
            IF g = 0 THEN "G00" ELSE IF g = 1 THEN "G01"
            ELSE IF g = 2 THEN "G02" ELSE "G03"]
    ELSE IF g = 17 THEN [h EXCEPT !.nodes[m].plane = "G17"]
    ELSE IF g = 18 THEN [h EXCEPT !.nodes[m].plane = "G18"]
    ELSE IF g = 19 THEN [h EXCEPT !.nodes[m].plane = "G19"]
    ELSE IF g = 20 THEN [h EXCEPT !.nodes[m].units = "G20"]
    ELSE IF g = 21 THEN [h EXCEPT !.nodes[m].units = "G21"]
    ELSE IF g \in 54..59 THEN [h EXCEPT !.nodes[m].wcs = g - 54]
    ELSE IF g = 90 THEN [h EXCEPT !.nodes[m].absolute = TRUE]
    ELSE IF g = 91 THEN [h EXCEPT !.nodes[m].absolute = FALSE]
    ELSE h

\* end[axis] = v * units_scale (absolute) or end[axis] += v * units_scale
line_axis(h, end, axis, v, scale, absolute) ==
    IF IsNone(v) THEN h
    ELSE SetItem(h, end, axis,
                 IF absolute THEN Times(Val(v), scale)
                 ELSE h.arrays[end][axis] + Times(Val(v), scale))

OptScaled(v, scale) == IF IsNone(v) THEN 0 ELSE Times(Val(v), scale)

\* start + the in-plane components of center_offset
line_center(start, t, scale, plane) ==
    IF plane = "G17"
    THEN <<start[1] + OptScaled(t["I"], scale), start[2] + OptScaled(t["J"], scale),
           start[3]>>
    ELSE IF plane = "G18"
    THEN <<start[1] + OptScaled(t["I"], scale), start[2],
           start[3] + OptScaled(t["K"], scale)>>
    ELSE <<start[1], start[2] + OptScaled(t["J"], scale),
           start[3] + OptScaled(t["K"], scale)>>

\* the state of a parse_string call: heap, modal (address), units_scale,
\* segments, done (the break)
LineState(h, m, scale, segs, done) ==
    [heap |-> h, modal |-> m, units_scale |-> scale, segments |-> segs,
     done |-> done]

\* parse_string, from `start = modal.position.copy()` to
\* `modal.position = end.copy()`: h is the heap and end the address of the
\* array `end` after the X/Y/Z and F words.  The arrays made are, in this
\* order, the segment's start, end and center, the position of the modal
\* dict, and the new modal.position.
line_append(st, h, end, t, scale) ==
    LET n == h.nodes[st.modal]
        a == Len(h.arrays)
        isArc == n.motion \in {"G02", "G03"}
        c == IF isArc THEN 1 ELSE 0
    IN LineState([arrays |-> h.arrays
                             \o <<h.arrays[n.position], h.arrays[end]>>
                             \o (IF isArc
                                 THEN <<line_center(h.arrays[n.position], t, scale,
                                                    n.plane)>>
                                 ELSE <<>>)
                             \o <<h.arrays[n.position], h.arrays[end]>>,
                  nodes |-> [h.nodes EXCEPT ![st.modal].position = a + c + 4]],
                 st.modal, scale,
                 Append(st.segments,
                        [type |-> IF n.motion = "G00" THEN "rapid"
                                  ELSE IF n.motion = "G01" THEN "linear"
                                  ELSE IF n.motion = "G02" THEN "arc_cw"
                                  ELSE "arc_ccw",
                         start |-> a + 1, end |-> a + 2,
                         center |-> IF isArc THEN Some(a + 3) ELSE None,
                         plane |-> n.plane, wcs |-> n.wcs,
                         modal |-> to_dict(n, a + c + 3),
                         feedrate |-> n.feed_rate]),
                 FALSE)

\* parse_string, "Build end position" to the has_position test: h is the
\* heap after the G, M and S words
line_move(st, h, t, scale) ==
    LET absolute == h.nodes[st.modal].absolute
        end == Len(h.arrays) + 1
        h1 == line_axis(line_axis(line_axis(copy(h, h.nodes[st.modal].position),
                                            end, 1, t["X"], scale, absolute),
                                  end, 2, t["Y"], scale, absolute),
                        end, 3, t["Z"], scale, absolute)
    IN IF IsNone(t["X"]) /\ IsNone(t["Y"]) /\ IsNone(t["Z"])
       THEN LineState(IF IsNone(t["F"]) THEN h1
                      ELSE [h1 EXCEPT !.nodes[st.modal].feed_rate = t["F"]],
                      st.modal, scale, st.segments, FALSE)
       ELSE line_append(st,
                        IF IsNone(t["F"]) THEN h1
                        ELSE [h1 EXCEPT !.nodes[st.modal].feed_rate = t["F"]],
                        end, t, scale)

\* parse_string, the M and S words: tool change, spindle control and speed
line_m_s(h, m, t) ==
    LET mw == t["M"]
        h2 == IF ~IsNone(mw) /\ Val(mw) = 6 /\ ~IsNone(t["T"])
              THEN [h EXCEPT !.nodes[m].tool_id = Val(t["T"])] ELSE h
        h3 == IF ~IsNone(mw) /\ Val(mw) = 3
              THEN [h2 EXCEPT !.nodes[m].spindle_on = TRUE]
              ELSE IF ~IsNone(mw) /\ Val(mw) = 5
              THEN [h2 EXCEPT !.nodes[m].spindle_on = FALSE]
              ELSE h2
    IN IF IsNone(t["S"]) THEN h3 ELSE [h3 EXCEPT !.nodes[m].spindle_rpm = Val(t["S"])]

\* parse_string, "Update units scale"
line_scale(t, scale) ==
    IF IsNone(t["G"]) THEN scale
    ELSE IF Val(t["G"]) = 20 THEN InchScale
    ELSE IF Val(t["G"]) = 21 THEN MmScale
    ELSE scale

\* the body of `for raw_line in content.splitlines()`, t the line's tokens
line_tokens(st, t) ==
    LET h1 == IF IsNone(t["G"]) THEN st.heap
              ELSE parse_g_code(st.heap, st.modal, Val(t["G"]))
    IN IF t = NoTokens THEN st
       ELSE IF ~IsNone(t["M"]) /\ Val(t["M"]) \in {2, 30}
       THEN LineState(h1, st.modal, line_scale(t, st.units_scale), st.segments, TRUE)
       ELSE line_move(st, line_m_s(h1, st.modal, t), t, line_scale(t, st.units_scale))

line_body(st, raw_line) == line_tokens(st, tokenize_line(raw_line))

----------------------------------------------------------------------------
(* Inputs.  A program is a token list of at most MaxTokens tokens drawn     *)
(* from an alphabet, closed by EOF as tokenize() closes every list.         *)
MaxTokens == 4

G(n) == Tok("G", n)
M(n) == Tok("M", n)
X(n) == Tok("X", n)
Y(n) == Tok("Y", n)
Z(n) == Tok("Z", n)
F(n) == Tok("F", n)

Programs(alphabet) ==
    { Append(p, EOF) : p \in UNION { [1..n -> alphabet] : n \in 0..MaxTokens } }

\* Scenarios A, B and C of the specification's testable properties, and a
\* program with a block number, a program number, comments and other words
ScenarioA == <<G(90), G(21), G(1), X(10), Y(0), Z(0), F(100), EOF>>
ScenarioB == <<G(90), G(17), G(2), X(10), Y(0), Tok("I", 5), Tok("J", 0), EOF>>
ScenarioC == <<G(91), G(1), X(5), NL, G(91), G(1), X(5), EOF>>
ScenarioN == <<Tok("O", 100), CMT, NL, Tok("N", 10), G(0), X(5), CMT, NL,
               SKIP, Tok("N", 20), G(1), Y(5), F(100), NL, CMT, NL, Tok("N", 30),
               Tok("T", 2), M(6), Tok("S", 1000), M(3), Tok("A", 1), NL,
               Z(5), Tok("COMMENT_SEMI", 0), NL, M(30), NL, X(10), EOF>>
\* incremental moves around a skipped block, then an arc
ScenarioD == <<G(91), G(1), X(5), NL, SKIP, X(5), NL, G(2), X(5), Y(10), EOF>>
Scenarios == {ScenarioA, ScenarioB, ScenarioC, ScenarioD, ScenarioN}

\* GCodeParser.__init__ on a token list of progs
InitTokens(progs) ==
    /\ tokens \in progs
    /\ pos = 0
    /\ units_scale = MmScale
    /\ heap = ModalStateNode(EmptyHeap)
    /\ modal = 1
    /\ program = ProgramNode
    /\ position = 0
    /\ segments = <<>>
    /\ blockIdx = 0
    /\ pc = "init"
    /\ mode = "token"
    /\ lines = <<>>
    /\ args = [initial_position |-> <<0, 0, 0>>, metric |-> TRUE]
    /\ NoLexer /\ NoMachine /\ NoStock /\ NoCollision

\* interpret_to_segments, up to the for-loop: parse(), the state reset
Start ==
    /\ pc = "init" /\ mode = "token"
    /\ \E r \in {parse(tokens, pos, heap, modal, units_scale)} :
         \E st \in {interpret_reset(r.heap)} :
            /\ pos' = r.pos
            /\ program' = r.program
            /\ heap' = st.heap
            /\ modal' = st.modal
            /\ position' = st.position
            /\ segments' = st.segments
    /\ blockIdx' = 1
    /\ pc' = "interp"
    /\ UNCHANGED <<tokens, units_scale, mode, lines, args>>
    /\ UNCHANGED <<lexerVars, machineVars, stockVars, collisionVars>>

\* one iteration of the for-loop of interpret_to_segments
InterpretBlock ==
    /\ pc = "interp" /\ blockIdx <= Len(program.blocks)
    /\ \E st \in {interpret_block(InterpState(heap, modal, position, segments, FALSE),
                                  program.blocks[blockIdx], blockIdx)} :
          /\ heap' = st.heap
          /\ modal' = st.modal
          /\ position' = st.position
          /\ segments' = st.segments
          /\ pc' = IF st.done THEN "done" ELSE "interp"
          /\ blockIdx' = IF st.done THEN blockIdx ELSE blockIdx + 1
    /\ UNCHANGED <<tokens, pos, units_scale, program, mode, lines, args>>
    /\ UNCHANGED <<lexerVars, machineVars, stockVars, collisionVars>>

\* the for-loop is exhausted: `return segments`
Return ==
    /\ pc = "interp" /\ blockIdx > Len(program.blocks)
    /\ pc' = "done"
    /\ UNCHANGED <<tokens, pos, units_scale, program, heap, modal, position,
                   segments, blockIdx, mode, lines, args>>
    /\ UNCHANGED <<lexerVars, machineVars, stockVars, collisionVars>>

\* a token list as content for parse_string, any start position, either units
InitLines(progs) ==
    /\ tokens \in progs
    /\ lines = splitlines(tokens, 1, <<>>)
    /\ args \in [initial_position : {<<0, 0, 0>>, <<5, 10, 0>>}, metric : BOOLEAN]
    /\ pos = 0
    /\ units_scale = MmScale
    /\ heap = EmptyHeap
    /\ modal = 0
    /\ program = ProgramNode
    /\ position = 0
    /\ segments = <<>>
    /\ blockIdx = 0
    /\ pc = "init"
    /\ mode = "line"
    /\ NoLexer /\ NoMachine /\ NoStock /\ NoCollision

\* parse_string up to the loop: ModalState(), the start position, units_scale
LineStart ==
    /\ pc = "init" /\ mode = "line"
    /\ heap' = [NewArray(ModalState(heap), args.initial_position)
                  EXCEPT !.nodes[Len(heap.nodes) + 1].position = Len(heap.arrays) + 2]
    /\ modal' = Len(heap.nodes) + 1
    /\ units_scale' = IF args.metric THEN MmScale ELSE InchScale
    /\ segments' = <<>>
    /\ blockIdx' = 1
    /\ pc' = "line"
    /\ UNCHANGED <<tokens, pos, program, position, mode, lines, args>>
    /\ UNCHANGED <<lexerVars, machineVars, stockVars, collisionVars>>

\* one iteration of the loop over the lines
LineStep ==
    /\ pc = "line" /\ blockIdx <= Len(lines)
    /\ \E st \in {line_body(LineState(heap, modal, units_scale, segments, FALSE),
                            lines[blockIdx])} :
          /\ heap' = st.heap
          /\ units_scale' = st.units_scale
          /\ segments' = st.segments
          /\ pc' = IF st.done THEN "done" ELSE "line"
          /\ blockIdx' = IF st.done THEN blockIdx ELSE blockIdx + 1
    /\ UNCHANGED <<tokens, pos, program, modal, position, mode, lines, args>>
    /\ UNCHANGED <<lexerVars, machineVars, stockVars, collisionVars>>

\* the loop is exhausted: `return segments, modal`
LineReturn ==
    /\ pc = "line" /\ blockIdx > Len(lines)
    /\ pc' = "done"
    /\ UNCHANGED <<tokens, pos, units_scale, program, heap, modal, position,
                   segments, blockIdx, mode, lines, args>>
    /\ UNCHANGED <<lexerVars, machineVars, stockVars, collisionVars>>

Next == Start \/ InterpretBlock \/ Return
NextBoth == Start \/ InterpretBlock \/ Return \/ LineStart \/ LineStep \/ LineReturn

\* programs of motion words, skips and distance modes, for the token parser
PathAlphabet == {NL, SKIP, X(5), Y(10), Z(-5), G(0), G(1), G(2), G(3), G(90), G(91)}
InitPath == InitTokens(Programs(PathAlphabet) \cup Scenarios)
SpecPath == InitPath /\ [][Next]_vars

\* both parsers on the same programs
\* programs with F words, for the feed rate
FeedAlphabet == {NL, SKIP, X(5), Y(10), F(100), F(200), G(0), G(2)}
InitFeed == InitTokens(Programs(FeedAlphabet) \cup Scenarios)
SpecFeed == InitFeed /\ [][Next]_vars

\* programs with program-end words and skipped blocks
EndAlphabet == {NL, SKIP, X(5), Y(10), M(2), M(30), G(0), G(91)}
InitEnd == InitTokens(Programs(EndAlphabet) \cup Scenarios)
SpecEnd == InitEnd /\ [][Next]_vars

\* programs with unit switches
UnitsAlphabet == {NL, SKIP, X(5), Y(10), G(20), G(21), G(91), G(0)}
InitUnits == InitTokens(Programs(UnitsAlphabet) \cup Scenarios)
SpecUnits == InitUnits /\ [][Next]_vars

\* programs with arcs, planes and center offsets
ArcAlphabet == {NL, X(10), G(2), G(3), G(17), G(18), G(19), G(91),
                Tok("I", 5), Tok("J", 5), Tok("K", 3), Tok("R", 5)}
InitArc == InitTokens(Programs(ArcAlphabet) \cup Scenarios)
SpecArc == InitArc /\ [][Next]_vars

\* programs with spindle words
SpindleAlphabet == {NL, SKIP, X(5), Y(10), M(3), M(4), M(5), G(0)}
InitSpindle == InitTokens(Programs(SpindleAlphabet) \cup Scenarios)
SpecSpindle == InitSpindle /\ [][Next]_vars

BothAlphabet == {NL, SKIP, X(5), Y(10), Z(-5), G(0), G(2), G(20), G(90), G(91)}
InitBoth == InitTokens(Programs(BothAlphabet) \cup Scenarios)
            \/ InitLines(Programs(BothAlphabet) \cup Scenarios)
SpecBoth == InitBoth /\ [][NextBoth]_vars

----------------------------------------------------------------------------
(* The lexer (lexer/lexer.py).  The text is a sequence of one-character     *)
(* strings.  A token is [type, value, line, column, raw, at]: raw is the     *)
(* matched text, and at is a history field, the offset (self.pos) of the     *)
(* token's first character.                                                  *)
CR == "\r"
LF == "\n"
Digits == {"0", "1", "2", "3", "4", "5", "6", "7", "8", "9"}
UpperLetters == {"G", "M", "X", "Y", "Z", "A", "B", "C", "U", "V", "W", "I", "J", "K",
                 "R", "F", "S", "T", "H", "D", "L", "P", "Q", "N", "O", "E"}
LowerLetters == {"g", "x"}
\* str.isalpha(), on the characters the model uses
isalpha(c) == c \in UpperLetters \cup LowerLetters
\* str.upper()
upper(c) == IF c = "g" THEN "G" ELSE IF c = "x" THEN "X" ELSE c
\* LexerPatterns.ADDRESS_TOKENS.get(letter, TokenType.LABEL)
ADDRESS_TOKENS(letter) == IF letter = "E" THEN "LABEL" ELSE letter

\* GCodeLexer.__init__
GCodeLexer(text) == [text |-> text, pos |-> 0, line |-> 1, column |-> 1]

\* GCodeLexer.current_char: None at the end of the text
current_char(L) == IF L.pos >= Len(L.text) THEN None ELSE Some(L.text[L.pos + 1])
\* the character k places after self.pos in self.remaining, None past the end
remaining_at(L, k) ==
    IF L.pos + k >= Len(L.text) THEN None ELSE Some(L.text[L.pos + k + 1])
\* self.remaining[:n]
remaining_prefix(L, n) == SubSeq(L.text, L.pos + 1, L.pos + n)

\* GCodeLexer.advance(count)
RECURSIVE lexer_advance(_, _)
lexer_advance(L, count) ==
    IF count <= 0 THEN L
    ELSE IF L.pos < Len(L.text)
    THEN lexer_advance([L EXCEPT !.pos = @ + 1,
                                 !.line = IF L.text[L.pos + 1] = LF THEN @ + 1 ELSE @,
                                 !.column = IF L.text[L.pos + 1] = LF THEN 1 ELSE @ + 1],
                       count - 1)
    ELSE lexer_advance(L, count - 1)

\* GCodeLexer.skip_whitespace
RECURSIVE lexer_skip_whitespace(_)
lexer_skip_whitespace(L) ==
    IF current_char(L) \in {Some(" "), Some("\t")}
    THEN lexer_skip_whitespace(lexer_advance(L, 1))
    ELSE L

\* the number of characters from offset k of self.remaining on that are in set cs
RECURSIVE run_length(_, _, _)
run_length(L, k, cs) ==
    IF ~IsNone(remaining_at(L, k)) /\ Val(remaining_at(L, k)) \in cs
    THEN 1 + run_length(L, k + 1, cs)
    ELSE 0

\* LexerPatterns.NEWLINE.match(self.remaining): the length matched, 0 for none
newline_match(L) ==
    IF remaining_at(L, 0) = Some(CR)
    THEN (IF remaining_at(L, 1) = Some(LF) THEN 2 ELSE 1)
    ELSE IF remaining_at(L, 0) = Some(LF) THEN 1
    ELSE 0

\* the length of self.remaining.split("\n", 1)[0]
RECURSIVE first_line_length(_, _)
first_line_length(L, k) ==
    IF IsNone(remaining_at(L, k)) \/ remaining_at(L, k) = Some(LF) THEN 0
    ELSE 1 + first_line_length(L, k + 1)

\* a comment length that leaves out the semicolon
semicolon_comment_short(L) == first_line_length(L, 0) - 1

\* next_token, "Semicolon comment": len(comment)
semicolon_comment(L) == first_line_length(L, 0)

\* read_comment_paren: the length of raw, from offset k (after the "(") on
RECURSIVE read_comment_paren(_, _)
read_comment_paren(L, k) ==
    IF IsNone(remaining_at(L, k)) THEN k
    ELSE IF remaining_at(L, k) = Some(")") THEN k + 1
    ELSE read_comment_paren(L, k + 1)

\* raw[1:-1] if len(raw) > 2 else ""
comment_content(raw) == IF Len(raw) > 2 THEN SubSeq(raw, 2, Len(raw) - 1) ELSE <<>>

\* the length LexerPatterns.WORD `([A-Za-z])(-?\d+\.?\d*)` matches at
\* self.remaining, 0 for no match
word_match(L) ==
    LET neg == IF remaining_at(L, 1) = Some("-") THEN 1 ELSE 0
        nd == run_length(L, 1 + neg, Digits)
        dot == IF remaining_at(L, 1 + neg + nd) = Some(".") THEN 1 ELSE 0
    IN IF IsNone(remaining_at(L, 0)) \/ ~isalpha(Val(remaining_at(L, 0))) \/ nd = 0
       THEN 0
       ELSE 1 + neg + nd + dot + run_length(L, 1 + neg + nd + dot, Digits)

\* int() of a digit string
DigitValue(c) ==
    IF c = "0" THEN 0 ELSE IF c = "1" THEN 1 ELSE IF c = "2" THEN 2
    ELSE IF c = "3" THEN 3 ELSE IF c = "4" THEN 4 ELSE IF c = "5" THEN 5
    ELSE IF c = "6" THEN 6 ELSE IF c = "7" THEN 7 ELSE IF c = "8" THEN 8 ELSE 9
RECURSIVE int_of(_, _)
int_of(str, acc) ==
    IF str = <<>> THEN acc ELSE int_of(Tail(str), 10 * acc + DigitValue(Head(str)))

\* float(number_str): the sign, the integer part and the fraction digits
float_of(number_str) ==
    LET neg == number_str # <<>> /\ Head(number_str) = "-"
        body == IF neg THEN Tail(number_str) ELSE number_str
        dots == {i \in 1..Len(body) : body[i] = "."}
        whole == IF dots = {} THEN body
                 ELSE SubSeq(body, 1, (CHOOSE i \in dots : TRUE) - 1)
        frac == IF dots = {} THEN <<>>
                ELSE SubSeq(body, (CHOOSE i \in dots : TRUE) + 1, Len(body))
    IN [negative |-> neg, whole |-> int_of(whole, 0), fraction |-> frac]

\* Token(type, value, line, column, raw), with the offset of its first character
Token(type, value, line, column, raw, at) ==
    [type |-> type, value |-> value, line |-> line, column |-> column, raw |-> raw,
     at |-> at]

\* the result of a next_token call: the lexer after it, and the token returned
\* or the LexerError raised
Returned(L, token) == [lexer |-> L, token |-> Some(token), error |-> None]
Raised(L, line, column) ==
    [lexer |-> L, token |-> None, error |-> Some([line |-> line, column |-> column])]

\* next_token, "Parameter": n is the number of digits after the "#"
parameter_token(L, n) ==
    IF n > 0
    THEN Returned(lexer_advance(L, 1 + n),
                  Token("PARAMETER", int_of(SubSeq(L.text, L.pos + 2, L.pos + 1 + n), 0),
                        L.line, L.column, remaining_prefix(L, 1 + n), L.pos))
    ELSE Returned(lexer_advance(L, 1),
                  Token("PARAMETER", 0, L.line, L.column, <<"#">>, L.pos))

\* next_token, "Word": read_word; n is the length WORD matches
word_token(L, n) ==
    IF n = 0 THEN Raised(L, L.line, L.column)
    ELSE Returned(lexer_advance(L, n),
                  Token(ADDRESS_TOKENS(upper(L.text[L.pos + 1])),
                        float_of(SubSeq(L.text, L.pos + 2, L.pos + n)),
                        L.line, L.column, remaining_prefix(L, n), L.pos))

\* the token of n characters from self.pos on, of this type and value
plain_token(L, n, type, value) ==
    Returned(lexer_advance(L, n),
             Token(type, value, L.line, L.column, remaining_prefix(L, n), L.pos))

OperatorChars == {"+", "-", "*", "=", "[", "]"}
operator_type(c) ==
    IF c = "+" THEN "PLUS" ELSE IF c = "-" THEN "MINUS" ELSE IF c = "*" THEN "MUL"
    ELSE IF c = "=" THEN "ASSIGN" ELSE IF c = "[" THEN "LBRACKET" ELSE "RBRACKET"

\* next_token after skip_whitespace, L the lexer at the token's first character
token_at(L) ==
    IF IsNone(current_char(L))
    THEN Returned(L, Token("EOF", None, L.line, L.column, <<>>, L.pos))
    ELSE IF newline_match(L) > 0
    THEN plain_token(L, newline_match(L), "NEWLINE", None)
    ELSE IF current_char(L) = Some(";")
    THEN plain_token(L, semicolon_comment(L), "COMMENT_SEMI",
                     SubSeq(L.text, L.pos + 2, L.pos + first_line_length(L, 0)))
    ELSE IF current_char(L) = Some("(")
    THEN plain_token(L, read_comment_paren(L, 1), "COMMENT",
                     comment_content(remaining_prefix(L, read_comment_paren(L, 1))))
    ELSE IF current_char(L) = Some("/")
    THEN plain_token(L, 1, "BLOCK_SKIP", None)
    ELSE IF current_char(L) = Some("#")
    THEN parameter_token(L, run_length(L, 1, Digits))
    ELSE IF Val(current_char(L)) \in OperatorChars
    THEN plain_token(L, 1, operator_type(Val(current_char(L))), Val(current_char(L)))
    ELSE IF isalpha(Val(current_char(L)))
    THEN word_token(L, word_match(L))
    ELSE Raised(L, L.line, L.column)

\* GCodeLexer.next_token
next_token(L) == token_at(lexer_skip_whitespace(L))

\* a run of tokenize() or of __iter__: the tokens appended or yielded so far,
\* status "run", "done" (the loop has left at EOF) or "error" (LexerError
\* raised, and then the error)
LexRun(kind, toks, status, error) ==
    [kind |-> kind, tokens |-> toks, status |-> status, error |-> error]

\* one iteration of `while True` in tokenize / __iter__; r is next_token's result
loop_step(run, r) ==
    IF IsNone(r.token) THEN LexRun(run.kind, run.tokens, "error", r.error)
    ELSE LexRun(run.kind, Append(run.tokens, Val(r.token)),
                IF Val(r.token).type = "EOF" THEN "done" ELSE "run", None)

\* GCodeLexer.tokenize, the whole loop as one function
RECURSIVE tokenize_loop(_, _)
tokenize_next(r, run) ==
    IF loop_step(run, r).status = "run" THEN tokenize_loop(r.lexer, loop_step(run, r))
    ELSE loop_step(run, r)
tokenize_loop(L, run) == tokenize_next(next_token(L), run)
\* tokenize(text)
tokenize(text) == tokenize_loop(GCodeLexer(text), LexRun("tokenize", <<>>, "run", None))

----------------------------------------------------------------------------
(* Lexer runs.  A text is a character sequence of at most MaxChars          *)
(* characters of an alphabet; tokenize() and iteration each run on a fresh   *)
(* GCodeLexer.                                                               *)
MaxChars == 4
Texts(alphabet) == UNION { [1..n -> alphabet] : n \in 0..MaxChars }

\* a parenthesized comment over two lines, then a word
TextParen == <<"(", "G", LF, "1", ")", " ", "G", "1">>
\* a semicolon comment closed by CRLF, a word, a bare CR, a word
TextLines == <<"G", "1", ";", "x", CR, LF, "G", "1", CR, "X", "-", "1", ".", "5">>
\* a block skip, a parameter, an operator and a label
TextMisc == <<"/", "#", "5", "=", "E", "1">>
LexTexts == {TextParen, TextLines, TextMisc}

InitLexer(texts) ==
    /\ \E text \in texts : lexer = GCodeLexer(text)
    /\ \E kind \in {"tokenize", "iter"} : lexed = LexRun(kind, <<>>, "run", None)
    /\ NoParser /\ NoMachine /\ NoStock /\ NoCollision

\* one iteration of the loop of GCodeLexer.tokenize
TokenizeStep ==
    /\ lexed.kind = "tokenize" /\ lexed.status = "run"
    /\ \E r \in {next_token(lexer)} :
          /\ lexer' = r.lexer
          /\ lexed' = loop_step(lexed, r)
    /\ UNCHANGED <<parserVars, machineVars, stockVars, collisionVars>>

\* one iteration of the loop of GCodeLexer.__iter__: a token is yielded
IterStep ==
    /\ lexed.kind = "iter" /\ lexed.status = "run"
    /\ \E r \in {next_token(lexer)} :
          /\ lexer' = r.lexer
          /\ lexed' = loop_step(lexed, r)
    /\ UNCHANGED <<parserVars, machineVars, stockVars, collisionVars>>

NextLexer == TokenizeStep \/ IterStep

LexAlphabet == {"G", "1", "-", ".", " ", CR, LF, ";", "(", ")", "#", "/"}
InitLex == InitLexer(Texts(LexAlphabet) \cup LexTexts)
SpecLex == InitLex /\ [][NextLexer]_vars

\* the loops of tokenize and __iter__ keep running until they leave
TerminationAlphabet == {"G", "1", ";", "(", LF}
InitTermination == InitLexer(Texts(TerminationAlphabet) \cup LexTexts)
SpecTermination == InitTermination /\ [][NextLexer]_vars /\ WF_vars(NextLexer)

----------------------------------------------------------------------------
(* Reading the state.                                                       *)

\* a ModalStateNode of heap h with its position read out
SnapshotIn(h, m) == [h.nodes[m] EXCEPT !.position = h.arrays[@]]
\* a token-parser segment of heap h with every address read out; the
\* history field blk is left out
SegValueIn(h, s) ==
    [block_number |-> s.block_number, motion_type |-> s.motion_type,
     start_pos |-> h.arrays[s.start_pos], end_pos |-> h.arrays[s.end_pos],
     feed_rate |-> s.feed_rate, tool_id |-> s.tool_id, wcs |-> s.wcs,
     arc_center |-> IF IsNone(s.arc_center) THEN None
                    ELSE Some(h.arrays[Val(s.arc_center)]),
     arc_radius |-> s.arc_radius, plane |-> s.plane,
     modal |-> SnapshotIn(h, s.modal)]
SegValuesIn(h, segs) == [i \in 1..Len(segs) |-> SegValueIn(h, segs[i])]

SegStart(s) == IF mode = "token" THEN heap.arrays[s.start_pos] ELSE heap.arrays[s.start]
SegEnd(s) == IF mode = "token" THEN heap.arrays[s.end_pos] ELSE heap.arrays[s.end]

\* the words of the non-skipped blocks 1..i of the program, in order
RECURSIVE WordsUpTo(_)
WordsUpTo(i) ==
    IF i = 0 THEN <<>>
    ELSE WordsUpTo(i - 1) \o (IF program.blocks[i].block_skip THEN <<>>
                              ELSE program.blocks[i].words)

\* the value of the last word of class cls with a value in vals, else default
LastWord(ws, cls, vals, default) ==
    LET S == {n \in 1..Len(ws) : ws[n].cls = cls /\ ws[n].value \in vals}
    IN IF S = {} THEN default
       ELSE ws[CHOOSE n \in S : \A k \in S : k <= n].value

\* the last coordinate word with this letter in a block: None or <<word>>
LastCoord(block, letter) ==
    LET S == {n \in 1..Len(block.words) :
                block.words[n].cls = "CoordinateNode" /\ block.words[n].letter = letter}
    IN IF S = {} THEN None
       ELSE Some(block.words[CHOOSE n \in S : \A k \in S : k <= n])

HasAxisWord(block) ==
    \E n \in 1..Len(block.words) :
        block.words[n].cls = "CoordinateNode" /\ block.words[n].letter \in {"X", "Y", "Z"}

IsEndWord(w) == w.cls = "MCodeNode" /\ w.value \in {2, 30}
HasEndWord(block) == \E n \in 1..Len(block.words) : IsEndWord(block.words[n])
\* the non-skipped blocks of the program that hold M2 or M30
EndBlocks == {i \in 1..Len(program.blocks) :
                ~program.blocks[i].block_skip /\ HasEndWord(program.blocks[i])}
FirstEndBlock == CHOOSE e \in EndBlocks : \A k \in EndBlocks : e <= k
NotSkipped(block) == ~block.block_skip

\* the result of interpret_to_segments' loop over a block list, from the reset
InterpretBlocks(blocks) == interpret_from(interpret_reset(EmptyHeap), blocks, 1)
\* the live modal state and position of an interpreter state, read out
LiveValueIn(h, m, p) == [modal |-> SnapshotIn(h, m), position |-> h.arrays[p]]

\* the value of an optional coordinate word, 0 when it is not given
OffsetOf(w) == IF IsNone(w) THEN 0 ELSE Val(w).value

KindOfMode(g) == IF g = 0 THEN "rapid" ELSE IF g = 1 THEN "linear"
                 ELSE IF g = 2 THEN "arc_cw" ELSE "arc_ccw"

----------------------------------------------------------------------------
(* C1.  Continuity: in the segment list of interpret_to_segments and of the *)
(* line-based parse_string, each segment after the first starts where the   *)
(* one before it ends, componentwise, and the first segment starts at the   *)
(* origin (at initial_position for parse_string).                           *)
C1_Continuity ==
    /\ \A i \in 2..Len(segments) : SegStart(segments[i]) = SegEnd(segments[i - 1])
    /\ Len(segments) >= 1 =>
         SegStart(segments[1]) = IF mode = "token" THEN <<0, 0, 0>>
                                 ELSE args.initial_position

\* a finished run with a skipped block, an incremental block and an arc
\* that starts away from the origin
C1_Witness ==
    /\ pc = "done" /\ Len(segments) >= 2
    /\ \E i \in 1..Len(program.blocks) : program.blocks[i].block_skip
    /\ segments[2].motion_type = "arc_cw"
    /\ ~heap.nodes[segments[2].modal].absolute
    /\ SegStart(segments[2]) # <<0, 0, 0>>
    /\ SegEnd(segments[2]) # SegStart(segments[2])

(* C2.  Feed is modal in interpret_to_segments: the feed_rate of every      *)
(* linear or arc segment is the value of the last F word of the non-skipped *)
(* blocks up to and including its block, 0 when there is none.              *)
C2_FeedIsModal ==
    mode = "token" =>
      \A i \in 1..Len(segments) :
         segments[i].motion_type # "rapid" =>
            segments[i].feed_rate =
               LastWord(WordsUpTo(segments[i].blk), "FeedNode", Int, 0)

(* C3.  A segment, once emitted, never changes: the modal snapshot with     *)
(* its position vector, the start and end vectors and every other field     *)
(* keep their values through every later step.                              *)
C3_SnapshotFrozen ==
    [][mode = "token" =>
         \A i \in 1..Len(segments) :
            /\ i <= Len(segments')
            /\ SegValueIn(heap', segments'[i]) = SegValueIn(heap, segments[i])]_vars

\* a later block has changed the live motion mode and position, and the
\* first segment's snapshot still differs from them
C3_Witness ==
    /\ mode = "token" /\ pc = "done" /\ Len(segments) >= 2
    /\ heap.nodes[segments[1].modal].motion_mode # heap.nodes[modal].motion_mode
    /\ SnapshotIn(heap, segments[1].modal).position # SnapshotIn(heap, modal).position

(* C4.  interpret_to_segments stops at the first non-skipped block with M2  *)
(* or M30: the returned segments are those of the blocks before it, and the *)
(* modal state and position at the return are those reached at that block.  *)
C4_StopsAtProgramEnd ==
    (mode = "token" /\ pc = "done" /\ EndBlocks # {}) =>
       /\ blockIdx = FirstEndBlock
       /\ SegValuesIn(heap, segments) =
             SegValuesIn(InterpretBlocks(SubSeq(program.blocks, 1, FirstEndBlock - 1)).heap,
                         InterpretBlocks(SubSeq(program.blocks, 1, FirstEndBlock - 1)).segments)
       /\ \E r \in {InterpretBlocks(SubSeq(program.blocks, 1, FirstEndBlock))} :
             LiveValueIn(heap, modal, position) = LiveValueIn(r.heap, r.modal, r.position)

\* a run that returned at a program-end block with segments behind it and a
\* non-skipped motion block after it
C4_Witness ==
    /\ mode = "token" /\ pc = "done" /\ EndBlocks # {}
    /\ Len(segments) >= 1
    /\ \E j \in 1..Len(program.blocks) :
          /\ j > FirstEndBlock
          /\ ~program.blocks[j].block_skip
          /\ HasAxisWord(program.blocks[j])

(* C5.  A skip-flagged block contributes nothing: the returned segments     *)
(* (every field, the snapshot included) and the final modal state and       *)
(* position are those of the same program with the skip-flagged blocks      *)
(* deleted.                                                                 *)
C5_SkippedBlocksContributeNothing ==
    (mode = "token" /\ pc = "done") =>
       \E r \in {InterpretBlocks(SelectSeq(program.blocks, NotSkipped))} :
          /\ SegValuesIn(heap, segments) = SegValuesIn(r.heap, r.segments)
          /\ LiveValueIn(heap, modal, position) = LiveValueIn(r.heap, r.modal, r.position)

\* a run over a skipped block that holds M2 or M30 and one that holds a
\* coordinate or G word, with a segment emitted after them
C5_Witness ==
    /\ mode = "token" /\ pc = "done" /\ Len(segments) >= 1
    /\ \E i \in 1..Len(program.blocks) :
          /\ program.blocks[i].block_skip
          /\ HasEndWord(program.blocks[i])
          /\ i < segments[Len(segments)].blk

(* C6.  Units in the token pipeline: for a segment whose block has no unit  *)
(* word, each given X/Y/Z value enters the end coordinate multiplied by     *)
(* 25.4 when the last G20/G21 word of the earlier non-skipped blocks is G20 *)
(* and unchanged otherwise.                                                 *)
C6_AxisEnd(s, axis, letter) ==
    LET w == LastCoord(program.blocks[s.blk], letter)
        absolute == LastWord(WordsUpTo(s.blk), "GCodeNode", {90, 91}, 90) = 90
        scale == IF LastWord(WordsUpTo(s.blk - 1), "GCodeNode", {20, 21}, 21) = 20
                 THEN InchScale ELSE MmScale
    IN ~IsNone(w) =>
         SegEnd(s)[axis] = IF absolute THEN Times(Val(w).tok, scale)
                           ELSE SegStart(s)[axis] + Times(Val(w).tok, scale)

C6_UnitsScaling ==
    mode = "token" =>
      \A i \in 1..Len(segments) :
         LastWord(program.blocks[segments[i].blk].words, "GCodeNode", {20, 21}, 0) = 0 =>
            /\ C6_AxisEnd(segments[i], 1, "X")
            /\ C6_AxisEnd(segments[i], 2, "Y")
            /\ C6_AxisEnd(segments[i], 3, "Z")

(* C7.  For an arc segment in I/J/K mode the center is the start plus the   *)
(* two in-plane offsets of the active plane (I,J for G17; I,K for G18; J,K  *)
(* for G19), the third coordinate being the start's; and                    *)
(* `G90 G17 G2 X10 Y0 I5 J0` gives one arc_cw segment with center (5,0,0)   *)
(* and end (10,0,0).                                                        *)
C7_InPlaneCenter(s) ==
    LET b == program.blocks[s.blk]
        plane == LastWord(WordsUpTo(s.blk), "GCodeNode", {17, 18, 19}, 17)
        start == SegStart(s)
    IN heap.arrays[Val(s.arc_center)] =
         <<start[1] + (IF plane \in {17, 18} THEN OffsetOf(LastCoord(b, "I")) ELSE 0),
           start[2] + (IF plane \in {17, 19} THEN OffsetOf(LastCoord(b, "J")) ELSE 0),
           start[3] + (IF plane \in {18, 19} THEN OffsetOf(LastCoord(b, "K")) ELSE 0)>>

C7_ArcCenterInPlane ==
    mode = "token" =>
      /\ \A i \in 1..Len(segments) :
            (segments[i].motion_type \in {"arc_cw", "arc_ccw"}
               /\ IsNone(LastCoord(program.blocks[segments[i].blk], "R"))) =>
                  /\ ~IsNone(segments[i].arc_center)
                  /\ C7_InPlaneCenter(segments[i])
      /\ (tokens = ScenarioB /\ pc = "done") =>
            /\ Len(segments) = 1
            /\ segments[1].motion_type = "arc_cw"
            /\ heap.arrays[Val(segments[1].arc_center)] = <<5, 0, 0>>
            /\ SegEnd(segments[1]) = <<10, 0, 0>>

(* C8.  The snapshot's spindle_on of a segment is true exactly when the     *)
(* last M3/M4/M5 word of the non-skipped blocks up to and including its     *)
(* block is M3 or M4, and false when it is M5 or there is none.             *)
C8_SpindleSnapshot ==
    mode = "token" =>
      \A i \in 1..Len(segments) :
         heap.nodes[segments[i].modal].spindle_on =
            (LastWord(WordsUpTo(segments[i].blk), "MCodeNode", {3, 4, 5}, 5) \in {3, 4})

(* C9.  The kind of a segment is the motion mode set by the last G0..G3     *)
(* word of the non-skipped blocks up to and including its own block         *)
(* (linear when there is none), wherever the word stands in the block; and  *)
(* every segment comes from a block with an X, Y or Z word.                 *)
C9_KindIsModeAfterBlock ==
    mode = "token" =>
      \A i \in 1..Len(segments) :
         /\ segments[i].motion_type =
               KindOfMode(LastWord(WordsUpTo(segments[i].blk), "GCodeNode", 0..3, 1))
         /\ HasAxisWord(program.blocks[segments[i].blk])

\* a block `X.. G2` (the G word after the coordinate) gave an arc, and a
\* later block without a G word gave a segment of the mode left behind
C9_Witness ==
    /\ mode = "token" /\ pc = "done" /\ Len(segments) = 2
    /\ Len(program.blocks[segments[1].blk].words) = 2
    /\ program.blocks[segments[1].blk].words[1].cls = "CoordinateNode"
    /\ program.blocks[segments[1].blk].words[2] = WordNode("GCodeNode", "G", 2, 2)
    /\ segments[1].motion_type = "arc_cw"
    /\ Len(program.blocks[segments[2].blk].words) = 1
    /\ segments[2].motion_type = "arc_cw"

(* C10.  For every segment and axis: a given X/Y/Z value is the end         *)
(* coordinate under G90 and is added to the start coordinate under G91 (the *)
(* distance mode left by the last G90/G91 word up to and including the      *)
(* block); an axis not given keeps the start value.  `G91 G1 X5` twice from *)
(* the origin gives a second segment from (5,0,0) to (10,0,0).              *)
C10_AxisEnd(s, axis, letter) ==
    LET w == LastCoord(program.blocks[s.blk], letter)
        absolute == LastWord(WordsUpTo(s.blk), "GCodeNode", {90, 91}, 90) = 90
    IN SegEnd(s)[axis] =
         IF IsNone(w) THEN SegStart(s)[axis]
         ELSE IF absolute THEN Val(w).value
         ELSE SegStart(s)[axis] + Val(w).value

C10_DistanceMode ==
    mode = "token" =>
      /\ \A i \in 1..Len(segments) :
            /\ C10_AxisEnd(segments[i], 1, "X")
            /\ C10_AxisEnd(segments[i], 2, "Y")
            /\ C10_AxisEnd(segments[i], 3, "Z")
      /\ (tokens = ScenarioC /\ pc = "done") =>
            /\ Len(segments) = 2
            /\ SegStart(segments[2]) = <<5, 0, 0>>
            /\ SegEnd(segments[2]) = <<10, 0, 0>>

\* Scenario C has run to its end
C10_Witness ==
    /\ mode = "token" /\ pc = "done" /\ tokens = ScenarioC
    /\ Len(segments) = 2 /\ ~heap.nodes[segments[2].modal].absolute

\* index i of the text is the last character of a line ending: LF, or a CR
\* that no LF follows
IsLineEnd(text, i) ==
    \/ text[i] = LF
    \/ text[i] = CR /\ (i = Len(text) \/ text[i + 1] # LF)
\* the indices of the line endings before offset at
LineEndsBefore(text, at) == {i \in 1..at : IsLineEnd(text, i)}
\* the 1-based line and column of the character at offset at
LineOf(text, at) == 1 + Cardinality(LineEndsBefore(text, at))
ColumnOf(text, at) ==
    IF LineEndsBefore(text, at) = {} THEN at + 1
    ELSE at + 1 - (CHOOSE i \in LineEndsBefore(text, at) :
                      \A k \in LineEndsBefore(text, at) : k <= i)

(* C11.  Every token's (line, column) is the 1-based line and column of its *)
(* first character in the text, a line ending at CR, LF or CRLF.            *)
C11_TokenPosition ==
    \A i \in 1..Len(lexed.tokens) :
       /\ lexed.tokens[i].line = LineOf(lexer.text, lexed.tokens[i].at)
       /\ lexed.tokens[i].column = ColumnOf(lexer.text, lexed.tokens[i].at)

(* C12.  No PARAMETER token is produced for a "#" that no digit follows.    *)
C12_ParameterNeedsDigit ==
    \A i \in 1..Len(lexed.tokens) :
       lexed.tokens[i].type = "PARAMETER" =>
          /\ lexed.tokens[i].at + 2 <= Len(lexer.text)
          /\ lexer.text[lexed.tokens[i].at + 2] \in Digits

\* the token list of a finished run ends with EOF and holds no other EOF
EndsWithOneEOF(toks) ==
    /\ toks # <<>>
    /\ \A i \in 1..Len(toks) : (toks[i].type = "EOF") <=> (i = Len(toks))

(* C13.  Every next_token call consumes a character, returns EOF or raises; *)
(* every run ends, by the return or by a LexerError; a finished run holds   *)
(* one EOF, as its last token; and the tokens an iteration has yielded are  *)
(* the list tokenize returns for the text.                                  *)
C13_LexerTerminates ==
    /\ [][lexed' # lexed =>
            /\ \/ lexer'.pos > lexer.pos
               \/ lexed'.status = "error"
               \/ lexed'.tokens[Len(lexed'.tokens)].type = "EOF"
            /\ lexed'.status = "done" =>
                  /\ EndsWithOneEOF(lexed'.tokens)
                  /\ lexed'.tokens = tokenize(lexer'.text).tokens]_vars
    /\ <>(lexed.status \in {"done", "error"})

\* an iteration over a text with a comment, a newline and a word has ended
C13_Witness ==
    /\ lexed.kind = "iter" /\ lexed.status = "done"
    /\ Len(lexed.tokens) >= 4
    /\ \E i \in 1..Len(lexed.tokens) : lexed.tokens[i].type = "COMMENT_SEMI"
    /\ \E i \in 1..Len(lexed.tokens) : lexed.tokens[i].type = "NEWLINE"

(***************************************************************************)
(* The machine kinematics (core/kinematics.py).                            *)
(*                                                                         *)
(* Numbers.  Positions, offsets and limits are floats in the code.  The    *)
(* model counts in thousandths of a millimetre and rounds the result of    *)
(* every addition and subtraction to MantissaBits significant bits, to the *)
(* nearest value and to the even one on a tie, as IEEE arithmetic does     *)
(* with 53 bits.  Values below 2^MantissaBits are exact.                   *)
(*                                                                         *)
(* Objects.  A MachineState is a mutable object; kin.objects is the heap   *)
(* of MachineState objects and kin.current_state, the values returned by   *)
(* the move calls and the entries of a `states` list are addresses in it.  *)
(***************************************************************************)
MantissaBits == 20

milli(v) == v * 1000

Abs(v) == IF v < 0 THEN -v ELSE v

RECURSIVE ulp(_, _)
ulp(v, q) == IF Abs(v) < q * 2^MantissaBits THEN q ELSE ulp(v, 2 * q)

round_half_even(v, q) ==
    IF 2 * (v % q) < q \/ (2 * (v % q) = q /\ (v \div q) % 2 = 0)
    THEN (v \div q) * q
    ELSE (v \div q) * q + q

fl(v) == IF v < 0 THEN -round_half_even(-v, ulp(v, 1)) ELSE round_half_even(v, ulp(v, 1))

np_add(a, b) == [i \in 1..3 |-> fl(a[i] + b[i])]
np_sub(a, b) == [i \in 1..3 |-> fl(a[i] - b[i])]

\* AxisLimits.check: (ok, error_message)
AxisLimits(min, max) == [min |-> min, max |-> max]

limit_message(axis_name, value, relation, bound) ==
    [axis |-> axis_name, value |-> value, relation |-> relation, bound |-> bound]

check_exclusive(limits, value, axis_name) ==
    IF value <= limits.min
    THEN [ok |-> FALSE, error |-> Some(limit_message(axis_name, value, "<", limits.min))]
    ELSE IF value >= limits.max
    THEN [ok |-> FALSE, error |-> Some(limit_message(axis_name, value, ">", limits.max))]
    ELSE [ok |-> TRUE, error |-> None]

check(limits, value, axis_name) ==
    IF value < limits.min
    THEN [ok |-> FALSE, error |-> Some(limit_message(axis_name, value, "<", limits.min))]
    ELSE IF value > limits.max
    THEN [ok |-> FALSE, error |-> Some(limit_message(axis_name, value, ">", limits.max))]
    ELSE [ok |-> TRUE, error |-> None]

MachineConfig ==
    [x_limits |-> AxisLimits(milli(-500), milli(500)),
     y_limits |-> AxisLimits(milli(-300), milli(300)),
     z_limits |-> AxisLimits(milli(-200), milli(100))]

\* the error of one axis as a list: empty when the axis is within its limits
axis_errors(r) == IF r.ok THEN <<>> ELSE <<Val(r.error)>>

limit_result(errors) == [ok |-> Len(errors) = 0, errors |-> errors]

check_axis_limits(config, x, y, z) ==
    limit_result(axis_errors(check(config.x_limits, x, "X"))
                 \o axis_errors(check(config.y_limits, y, "Y"))
                 \o axis_errors(check(config.z_limits, z, "Z")))

\* WorkCoordinateSystem: offsets[1..6] are G54..G59, active_wcs is 0-based
WorkCoordinateSystem ==
    [offsets |-> [k \in 1..6 |-> <<0, 0, 0>>], active_wcs |-> 0]

set_offset(wcs, wcs_index, x, y, z) ==
    IF 0 <= wcs_index /\ wcs_index < 6
    THEN [wcs EXCEPT !.offsets[wcs_index + 1] = <<x, y, z>>]
    ELSE wcs

get_active_offset(wcs) == wcs.offsets[wcs.active_wcs + 1]

work_to_machine(wcs, work_pos) == np_add(work_pos, get_active_offset(wcs))

\* machine_to_work with the offset added instead of subtracted
machine_to_work_adding(wcs, machine_pos) == np_add(machine_pos, get_active_offset(wcs))

machine_to_work(wcs, machine_pos) == np_sub(machine_pos, get_active_offset(wcs))

\* MachineState(): the fields the kinematics reads or writes
MachineState ==
    [x |-> 0, y |-> 0, z |-> 0, x_work |-> 0, y_work |-> 0, z_work |-> 0,
     active_wcs |-> 0, feed_rate |-> 0, limits_ok |-> TRUE, limit_errors |-> <<>>]

position_machine(state) == <<state.x, state.y, state.z>>
position_work(state) == <<state.x_work, state.y_work, state.z_work>>

\* Kinematics3Axis.__init__
Kinematics3Axis ==
    [config |-> MachineConfig, wcs |-> WorkCoordinateSystem,
     objects |-> <<MachineState>>, current_state |-> 1]

current(K) == K.objects[K.current_state]

store(K, state) == [K EXCEPT !.objects[K.current_state] = state]

with_work(state, work) ==
    [state EXCEPT !.x_work = work[1], !.y_work = work[2], !.z_work = work[3]]

with_machine(state, machine) ==
    [state EXCEPT !.x = machine[1], !.y = machine[2], !.z = machine[3]]

with_limits(state, r) == [state EXCEPT !.limits_ok = r.ok, !.limit_errors = r.errors]

\* set_wcs, lines 184-189, once wcs.active_wcs has been assigned
set_wcs_work_kept(K, wcs_index) ==
    IF 0 <= wcs_index /\ wcs_index < 6
    THEN store([K EXCEPT !.wcs.active_wcs = wcs_index],
               [current(K) EXCEPT !.active_wcs = wcs_index])
    ELSE K

set_wcs(K, wcs_index) ==
    IF 0 <= wcs_index /\ wcs_index < 6
    THEN store([K EXCEPT !.wcs.active_wcs = wcs_index],
               with_work([current(K) EXCEPT !.active_wcs = wcs_index],
                         machine_to_work([K.wcs EXCEPT !.active_wcs = wcs_index],
                                         position_machine(current(K)))))
    ELSE K

set_wcs_offset(K, wcs_index, x, y, z) ==
    [K EXCEPT !.wcs = set_offset(K.wcs, wcs_index, x, y, z)]

\* an optional argument replaces the field, None leaves it
given(arg, old) == IF IsNone(arg) THEN old ELSE Val(arg)

checked(K, state) ==
    with_limits(state, check_axis_limits(K.config, state.x, state.y, state.z))

\* move_to_work: the kinematics after the call; the call returns K.current_state
merge_work(state, x, y, z, feed_rate) ==
    [state EXCEPT !.x_work = given(x, @), !.y_work = given(y, @),
                  !.z_work = given(z, @), !.feed_rate = given(feed_rate, @)]

converted_to_machine(K, state) ==
    with_machine(state, work_to_machine(K.wcs, position_work(state)))

move_to_work(K, x, y, z, feed_rate) ==
    store(K, checked(K, converted_to_machine(K, merge_work(current(K), x, y, z, feed_rate))))

merge_machine(state, x, y, z, feed_rate) ==
    [state EXCEPT !.x = given(x, @), !.y = given(y, @),
                  !.z = given(z, @), !.feed_rate = given(feed_rate, @)]

converted_to_work(K, state) ==
    with_work(state, machine_to_work(K.wcs, position_machine(state)))

move_to_machine(K, x, y, z, feed_rate) ==
    store(K, checked(K, converted_to_work(K, merge_machine(current(K), x, y, z, feed_rate))))

(***************************************************************************)
(* Arc sampling.  Angles are counted in eighths of a turn (pi is 4, a full *)
(* turn is 8), so that the angle of every direction along an axis and the  *)
(* midpoint between two of them are exact; cos and sin are tabulated in    *)
(* thousandths.  The arcs fed to the sampling have start and end on an     *)
(* axis through the center within the arc plane (or on the center), where  *)
(* arctan2 and the radius are exact.                                       *)
(***************************************************************************)
arctan2(y, x) ==
    CASE y = 0 /\ x >= 0 -> 0
      [] y = 0 /\ x < 0  -> 4
      [] x = 0 /\ y > 0  -> 2
      [] x = 0 /\ y < 0  -> -2

\* np.sqrt(a ** 2 + b ** 2) where a or b is 0
sqrt_of_squares(a, b) == Abs(a) + Abs(b)

cos(angle) == <<1000, 707, 0, -707, -1000, -707, 0, 707>>[(angle % 8) + 1]
sin(angle) == cos(angle - 2)

\* radius * cos(angle), the table being in thousandths
radius_times(radius, c) ==
    IF radius * c < 0 THEN -((-(radius * c)) \div 1000) ELSE (radius * c) \div 1000

\* np.linspace(a, b, num_samples, endpoint=True)
linspace(a, b, num_samples) ==
    [i \in 1..num_samples |-> a + ((i - 1) * (b - a)) \div (num_samples - 1)]

\* the angle computation of _arc_points_xy, lines 273-283
arc_angles_xy(start, end, center, clockwise, num_samples) ==
    LET start_angle == arctan2(start[2] - center[2], start[1] - center[1])
        end_angle == arctan2(end[2] - center[2], end[1] - center[1])
    IN  linspace(start_angle,
                 IF clockwise
                 THEN (IF end_angle >= start_angle THEN end_angle - 8 ELSE end_angle)
                 ELSE (IF end_angle <= start_angle THEN end_angle + 8 ELSE end_angle),
                 num_samples)

arc_points_xy(start, end, center, clockwise, num_samples) ==
    LET angles == arc_angles_xy(start, end, center, clockwise, num_samples)
        radius == sqrt_of_squares(start[1] - center[1], start[2] - center[2])
        z == linspace(start[3], end[3], num_samples)
    IN  [i \in 1..num_samples |->
            <<center[1] + radius_times(radius, cos(angles[i])),
              center[2] + radius_times(radius, sin(angles[i])),
              z[i]>>]

\* the angle computation of _arc_points_xz, lines 301-311
arc_angles_xz(start, end, center, clockwise, num_samples) ==
    LET start_angle == arctan2(start[3] - center[3], start[1] - center[1])
        end_angle == arctan2(end[3] - center[3], end[1] - center[1])
    IN  linspace(start_angle,
                 IF clockwise
                 THEN (IF end_angle >= start_angle THEN end_angle - 8 ELSE end_angle)
                 ELSE (IF end_angle <= start_angle THEN end_angle + 8 ELSE end_angle),
                 num_samples)

arc_points_xz(start, end, center, clockwise, num_samples) ==
    LET angles == arc_angles_xz(start, end, center, clockwise, num_samples)
        radius == sqrt_of_squares(start[1] - center[1], start[3] - center[3])
        y == linspace(start[2], end[2], num_samples)
    IN  [i \in 1..num_samples |->
            <<center[1] + radius_times(radius, cos(angles[i])),
              y[i],
              center[3] + radius_times(radius, sin(angles[i]))>>]

\* the angle computation of _arc_points_yz with the unwrapping tests strict
arc_angles_yz_strict(start, end, center, clockwise, num_samples) ==
    LET start_angle == arctan2(start[3] - center[3], start[2] - center[2])
        end_angle == arctan2(end[3] - center[3], end[2] - center[2])
    IN  linspace(start_angle,
                 IF clockwise
                 THEN (IF end_angle > start_angle THEN end_angle - 8 ELSE end_angle)
                 ELSE (IF end_angle < start_angle THEN end_angle + 8 ELSE end_angle),
                 num_samples)

\* the angle computation of _arc_points_yz, lines 329-339
arc_angles_yz(start, end, center, clockwise, num_samples) ==
    LET start_angle == arctan2(start[3] - center[3], start[2] - center[2])
        end_angle == arctan2(end[3] - center[3], end[2] - center[2])
    IN  linspace(start_angle,
                 IF clockwise
                 THEN (IF end_angle >= start_angle THEN end_angle - 8 ELSE end_angle)
                 ELSE (IF end_angle <= start_angle THEN end_angle + 8 ELSE end_angle),
                 num_samples)

arc_points_yz(start, end, center, clockwise, num_samples) ==
    LET angles == arc_angles_yz(start, end, center, clockwise, num_samples)
        radius == sqrt_of_squares(start[2] - center[2], start[3] - center[3])
        x == linspace(start[1], end[1], num_samples)
    IN  [i \in 1..num_samples |->
            <<x[i],
              center[2] + radius_times(radius, cos(angles[i])),
              center[3] + radius_times(radius, sin(angles[i]))>>]

\* a motion segment as the dict the parsers hand to the kinematics
Segment(type, start, end, center, plane, wcs) ==
    [type |-> type, start |-> start, end |-> end, center |-> center,
     plane |-> plane, wcs |-> wcs]

segment_to_points(segment, num_samples) ==
    IF segment.type \in {"rapid", "linear"} THEN <<segment.start, segment.end>>
    ELSE IF segment.type \notin {"arc_cw", "arc_ccw"} THEN <<segment.start, segment.end>>
    ELSE IF segment.plane = "G17"
    THEN arc_points_xy(segment.start, segment.end, segment.center,
                       segment.type = "arc_cw", num_samples)
    ELSE IF segment.plane = "G18"
    THEN arc_points_xz(segment.start, segment.end, segment.center,
                       segment.type = "arc_cw", num_samples)
    ELSE IF segment.plane = "G19"
    THEN arc_points_yz(segment.start, segment.end, segment.center,
                       segment.type = "arc_cw", num_samples)
    ELSE <<segment.start, segment.end>>

\* process_segments_with_machine: the loop over the segments and their points.
\* run is [kin, points, states]: the kinematics and the two lists so far.
RECURSIVE visit_points(_, _, _)
visit_points(run, seg_points, i) ==
    IF i > Len(seg_points) THEN run
    ELSE visit_points(
            [kin |-> move_to_work(run.kin, Some(seg_points[i][1]), Some(seg_points[i][2]),
                                  Some(seg_points[i][3]), None),
             points |-> Append(run.points,
                               position_machine(current(
                                   move_to_work(run.kin, Some(seg_points[i][1]),
                                                Some(seg_points[i][2]),
                                                Some(seg_points[i][3]), None)))),
             states |-> Append(run.states, run.kin.current_state)],
            seg_points, i + 1)

wcs_of_segment(K, seg) == IF IsNone(seg.wcs) THEN K ELSE set_wcs(K, Val(seg.wcs))

RECURSIVE process_segments_with_machine(_, _, _, _)
process_segments_with_machine(run, segs, num_samples, i) ==
    IF i > Len(segs) THEN run
    ELSE process_segments_with_machine(
            visit_points([run EXCEPT !.kin = wcs_of_segment(run.kin, segs[i])],
                         segment_to_points(segs[i], num_samples), 1),
            segs, num_samples, i + 1)

(***************************************************************************)
(* Runs of the kinematics.  A caller makes up to MaxCalls calls on one     *)
(* Kinematics3Axis object and keeps what the calls return: held.returned   *)
(* lists, for every move call, the returned reference and the state value  *)
(* read through it at the return; held.points and held.states are the      *)
(* result of the last process_segments_with_machine call.                  *)
(***************************************************************************)
MaxCalls == 3

MoveArgs ==
    { <<Some(milli(500)), None, None, None>>,
      <<Some(milli(500) + 1), Some(milli(-301)), None, Some(100)>>,
      <<None, None, Some(milli(-200)), None>>,
      <<Some(0), Some(0), Some(milli(101)), None>> }

WcsIndices == {-1, 0, 1, 5, 6}

OffsetArgs ==
    { <<k, o>> : k \in {0, 1, 6}, o \in {<<milli(1), 0, 0>>, <<milli(-1), milli(-1), 0>>} }

SegmentLists ==
    { << Segment("linear", <<0, 0, 0>>, <<milli(10), 0, 0>>, None, "G17", None) >>,
      << Segment("rapid", <<0, 0, 0>>, <<milli(501), 0, 0>>, None, "G17", Some(1)),
         Segment("arc_cw", <<milli(10), 0, 0>>, <<0, milli(-10), 0>>, <<0, 0, 0>>, "G17", None) >> }

SampleCounts == {2, 3}

Called(op, a) == [op |-> op, args |-> a]

InitMachine ==
    /\ kin = Kinematics3Axis
    /\ held = [calls |-> 0, call |-> Called("none", <<>>), returned |-> <<>>, points |-> <<>>, states |-> <<>>]
    /\ NoParser /\ NoLexer /\ NoStock /\ NoCollision

MoveToWork ==
    /\ held.calls < MaxCalls
    /\ \E a \in MoveArgs :
          /\ kin' = move_to_work(kin, a[1], a[2], a[3], a[4])
          /\ held' = [held EXCEPT !.calls = @ + 1,
                                  !.call = Called("move_to_work", a),
                                  !.returned = Append(@, [ref |-> kin.current_state,
                                                          seen |-> current(kin')])]
    /\ UNCHANGED <<parserVars, lexerVars, stockVars, collisionVars>>

MoveToMachine ==
    /\ held.calls < MaxCalls
    /\ \E a \in MoveArgs :
          /\ kin' = move_to_machine(kin, a[1], a[2], a[3], a[4])
          /\ held' = [held EXCEPT !.calls = @ + 1,
                                  !.call = Called("move_to_machine", a),
                                  !.returned = Append(@, [ref |-> kin.current_state,
                                                          seen |-> current(kin')])]
    /\ UNCHANGED <<parserVars, lexerVars, stockVars, collisionVars>>

SetWcs ==
    /\ held.calls < MaxCalls
    /\ \E k \in WcsIndices :
          /\ kin' = set_wcs(kin, k)
          /\ held' = [held EXCEPT !.calls = @ + 1, !.call = Called("set_wcs", k)]
    /\ UNCHANGED <<parserVars, lexerVars, stockVars, collisionVars>>

SetWcsOffset ==
    /\ held.calls < MaxCalls
    /\ \E a \in OffsetArgs :
          /\ kin' = set_wcs_offset(kin, a[1], a[2][1], a[2][2], a[2][3])
          /\ held' = [held EXCEPT !.calls = @ + 1, !.call = Called("set_wcs_offset", a)]
    /\ UNCHANGED <<parserVars, lexerVars, stockVars, collisionVars>>

ProcessSegments ==
    /\ held.calls < MaxCalls
    /\ \E segs \in SegmentLists, n \in SampleCounts :
          \E r \in {process_segments_with_machine(
                        [kin |-> kin, points |-> <<>>, states |-> <<>>], segs, n, 1)} :
             /\ kin' = r.kin
             /\ held' = [held EXCEPT !.calls = @ + 1,
                                     !.call = Called("process_segments_with_machine", <<segs, n>>),
                                     !.points = r.points,
                                     !.states = r.states]
    /\ UNCHANGED <<parserVars, lexerVars, stockVars, collisionVars>>

NextMachine == MoveToWork \/ MoveToMachine \/ SetWcs \/ SetWcsOffset \/ ProcessSegments

SpecMachine == InitMachine /\ [][NextMachine]_vars

(***************************************************************************)
(* Claims on the kinematics.                                               *)
(***************************************************************************)
AxisNames == <<"X", "Y", "Z">>

LimitsOf(config) == <<config.x_limits, config.y_limits, config.z_limits>>

ViolatedAxes(config, machine) ==
    {i \in 1..3 : machine[i] < LimitsOf(config)[i].min \/ machine[i] > LimitsOf(config)[i].max}

ActiveOffset(K) == K.wcs.offsets[K.wcs.active_wcs + 1]

\* C14: move_to_work never refuses a move.  After the call the work position
\* has the given axes replaced and the others kept, the machine position is
\* the work position plus the offset of the active WCS whether or not a limit
\* is violated, limits_ok is true exactly when every machine axis lies within
\* its limits (bounds included), and limit_errors holds exactly one message
\* for every violated axis and none for the others.
C14_MoveToWorkNeverRefuses ==
    [][held'.call.op = "move_to_work" =>
          /\ \A i \in 1..3 :
                position_work(current(kin'))[i] =
                    IF IsNone(held'.call.args[i]) THEN position_work(current(kin))[i]
                    ELSE Val(held'.call.args[i])
          /\ \A i \in 1..3 :
                position_machine(current(kin'))[i] =
                    position_work(current(kin'))[i] + ActiveOffset(kin)[i]
          /\ current(kin').limits_ok <=>
                ViolatedAxes(kin.config, position_machine(current(kin'))) = {}
          /\ Len(current(kin').limit_errors) =
                Cardinality(ViolatedAxes(kin.config, position_machine(current(kin'))))
          /\ \A i \in ViolatedAxes(kin.config, position_machine(current(kin'))) :
                \E j \in 1..Len(current(kin').limit_errors) :
                    current(kin').limit_errors[j].axis = AxisNames[i]
    ]_vars

C14_Witness ==
    /\ held.call.op = "move_to_work"
    /\ IsNone(held.call.args[3])
    /\ ~current(kin).limits_ok
    /\ Len(current(kin).limit_errors) = 2
    /\ ActiveOffset(kin) # <<0, 0, 0>>
    /\ position_machine(current(kin)) # position_work(current(kin))

\* C15: the MachineState returned by a move call is a snapshot.  The position,
\* limits_ok and limit_errors read through a returned reference stay what
\* they were at the return, whatever calls follow; and in the result of
\* process_segments_with_machine, states[i].position_machine is points[i] and
\* states[i].limits_ok is the limit status of point i, for every i.
C15_ReturnedStateIsSnapshot ==
    /\ \A i \in 1..Len(held.returned) :
          /\ position_machine(kin.objects[held.returned[i].ref])
                = position_machine(held.returned[i].seen)
          /\ position_work(kin.objects[held.returned[i].ref])
                = position_work(held.returned[i].seen)
          /\ kin.objects[held.returned[i].ref].limits_ok = held.returned[i].seen.limits_ok
          /\ kin.objects[held.returned[i].ref].limit_errors
                = held.returned[i].seen.limit_errors
    /\ \A i \in 1..Len(held.states) :
          /\ position_machine(kin.objects[held.states[i]]) = held.points[i]
          /\ kin.objects[held.states[i]].limits_ok
                <=> ViolatedAxes(kin.config, held.points[i]) = {}

\* C16: set_wcs(k) with k in 0..5 makes k the active WCS, leaves the machine
\* position unchanged and sets the work position to the machine position
\* minus offset[k]; with k outside 0..5 the whole kinematics state is unchanged.
C16_SetWcs ==
    [][held'.call.op = "set_wcs" =>
          IF held'.call.args \in 0..5
          THEN /\ kin'.wcs.active_wcs = held'.call.args
               /\ current(kin').active_wcs = held'.call.args
               /\ position_machine(current(kin')) = position_machine(current(kin))
               /\ \A i \in 1..3 :
                     position_work(current(kin'))[i] =
                         position_machine(current(kin))[i]
                             - kin.wcs.offsets[held'.call.args + 1][i]
          ELSE kin' = kin
    ]_vars

C16_Witness ==
    /\ held.call.op = "set_wcs"
    /\ held.call.args = 1
    /\ kin.wcs.active_wcs = 1
    /\ kin.wcs.offsets[2] # <<0, 0, 0>>
    /\ position_machine(current(kin)) # <<0, 0, 0>>
    /\ position_work(current(kin)) # position_machine(current(kin))

C16_WitnessOutOfRange ==
    /\ held.call.op = "set_wcs"
    /\ held.call.args = 6
    /\ kin.wcs.active_wcs = 5

(***************************************************************************)
(* Round trips through the coordinate conversion.  The WCS is set up with  *)
(* set_wcs_offset and set_wcs; the caller holds a position p, applies up   *)
(* to two conversions to it and keeps the value and the names of the       *)
(* conversions applied.  Positions and offsets are values a float can      *)
(* hold, small and large against 2^MantissaBits.                           *)
(***************************************************************************)
Large == 2^MantissaBits

RoundTripOffsets ==
    { <<0, 0, 0>>, <<milli(1), milli(-1), 3>>, <<Large, -Large, 3 * Large>> }

RoundTripPositions ==
    { <<0, 0, 0>>, <<1, 3, -1>>, <<milli(5), milli(-5), 7>>, <<Large, 2 * Large, 1>>,
      <<-3, Large - 1, Large + 2>> }

InitRoundTrip ==
    /\ \E o \in RoundTripOffsets, k \in 0..5 :
          kin = set_wcs(set_wcs_offset(Kinematics3Axis, k, o[1], o[2], o[3]), k)
    /\ \E p \in RoundTripPositions :
          held = [p |-> p, value |-> p, applied |-> <<>>]
    /\ NoParser /\ NoLexer /\ NoStock /\ NoCollision

WorkToMachine ==
    /\ Len(held.applied) < 2
    /\ held' = [held EXCEPT !.value = work_to_machine(kin.wcs, @),
                            !.applied = Append(@, "work_to_machine")]
    /\ UNCHANGED <<kin, parserVars, lexerVars, stockVars, collisionVars>>

MachineToWork ==
    /\ Len(held.applied) < 2
    /\ held' = [held EXCEPT !.value = machine_to_work(kin.wcs, @),
                            !.applied = Append(@, "machine_to_work")]
    /\ UNCHANGED <<kin, parserVars, lexerVars, stockVars, collisionVars>>

NextRoundTrip == WorkToMachine \/ MachineToWork

SpecRoundTrip == InitRoundTrip /\ [][NextRoundTrip]_vars

IsRoundTrip(applied) ==
    applied \in { <<"work_to_machine", "machine_to_work">>,
                  <<"machine_to_work", "work_to_machine">> }

\* C17 as stated: a conversion followed by its inverse gives back exactly p,
\* in either order, and no conversion changes the offset table or the active
\* index.
C17_RoundTripExact ==
    /\ [](IsRoundTrip(held.applied) => held.value = held.p)
    /\ [][kin'.wcs = kin.wcs]_vars

\* C17: a conversion followed by its inverse gives back p within the rounding
\* of the two float operations: on every axis the difference is at most
\* 2 * (|p| + |offset|) / 2^MantissaBits, which is 0 (exact equality) as long
\* as the magnitudes stay below half of 2^MantissaBits; and no conversion
\* changes the offset table or the active index.
C17_RoundTripWithinEpsilon ==
    /\ [](IsRoundTrip(held.applied) =>
             \A i \in 1..3 :
                Abs(held.value[i] - held.p[i])
                    <= (2 * (Abs(held.p[i]) + Abs(ActiveOffset(kin)[i]))) \div 2^MantissaBits)
    /\ [][kin'.wcs = kin.wcs]_vars

C17_Witness ==
    /\ IsRoundTrip(held.applied)
    /\ kin.wcs.active_wcs = 5
    /\ ActiveOffset(kin) = <<Large, -Large, 3 * Large>>
    /\ held.p = <<1, 3, -1>>
    /\ held.value # held.p

(***************************************************************************)
(* Sampling one segment.  The segment and the number of samples are        *)
(* drawn at the start; the one step is the call of segment_to_points.      *)
(***************************************************************************)
SampleCoords == {milli(-2), 0, milli(1)}

SamplePoints == {<<x, y, z>> : x \in SampleCoords, y \in SampleCoords, z \in SampleCoords}

SampleCenters == {<<0, 0, 0>>, <<milli(1), 0, milli(-2)>>}

\* the two coordinates of p that lie in the arc plane
InPlane(p, plane) ==
    CASE plane = "G17" -> <<p[1], p[2]>>
      [] plane = "G18" -> <<p[1], p[3]>>
      [] plane = "G19" -> <<p[2], p[3]>>

OnAxisThrough(p, center, plane) ==
    \/ InPlane(p, plane)[1] = InPlane(center, plane)[1]
    \/ InPlane(p, plane)[2] = InPlane(center, plane)[2]

SampleSegments ==
    { Segment(t, s, e, None, "G17", None) :
        t \in {"rapid", "linear"}, s \in SamplePoints, e \in SamplePoints }
    \cup
    { Segment(a[1], a[2], a[3], a[4], a[5], None) :
        a \in { b \in {"arc_cw", "arc_ccw"} \X SamplePoints \X SamplePoints
                       \X SampleCenters \X {"G17", "G18", "G19"} :
                  OnAxisThrough(b[2], b[4], b[5]) /\ OnAxisThrough(b[3], b[4], b[5]) } }

InitSample ==
    /\ kin = None
    /\ \E seg \in SampleSegments, n \in SampleCounts :
          held = [call |-> Called("segment_to_points", <<seg, n>>), points |-> <<>>]
    /\ NoParser /\ NoLexer /\ NoStock /\ NoCollision

SegmentToPoints ==
    /\ held.points = <<>>
    /\ held' = [held EXCEPT !.points = segment_to_points(held.call.args[1], held.call.args[2])]
    /\ UNCHANGED <<kin, parserVars, lexerVars, stockVars, collisionVars>>

SpecSample == InitSample /\ [][SegmentToPoints]_vars

IsArc(seg) == seg.type \in {"arc_cw", "arc_ccw"}

\* C18: the polyline of an arc segment, whatever its start, end and center,
\* begins at the segment's start and ends at the segment's end; a rapid or
\* linear segment gives exactly the two points start and end.
C18_ArcEndpoints ==
    held.points # <<>> =>
        IF IsArc(held.call.args[1])
        THEN /\ held.points[1] = held.call.args[1].start
             /\ held.points[Len(held.points)] = held.call.args[1].end
        ELSE held.points = <<held.call.args[1].start, held.call.args[1].end>>

\* the angles the sampling of an arc segment runs through
AnglesOf(seg, n) ==
    CASE seg.plane = "G17" -> arc_angles_xy(seg.start, seg.end, seg.center, seg.type = "arc_cw", n)
      [] seg.plane = "G18" -> arc_angles_xz(seg.start, seg.end, seg.center, seg.type = "arc_cw", n)
      [] seg.plane = "G19" -> arc_angles_yz(seg.start, seg.end, seg.center, seg.type = "arc_cw", n)

DirectionOf(p, center, plane) ==
    arctan2(InPlane(p, plane)[2] - InPlane(center, plane)[2],
            InPlane(p, plane)[1] - InPlane(center, plane)[1])

RadiusOf(seg) ==
    Abs(InPlane(seg.start, seg.plane)[1] - InPlane(seg.center, seg.plane)[1])
        + Abs(InPlane(seg.start, seg.plane)[2] - InPlane(seg.center, seg.plane)[2])

SweepRule(seg, angles, points) ==
    /\ angles[1] = DirectionOf(seg.start, seg.center, seg.plane)
    /\ (angles[Len(angles)] - DirectionOf(seg.end, seg.center, seg.plane)) % 8 = 0
    /\ \A i \in 1..(Len(angles) - 1) :
          IF seg.type = "arc_cw" THEN angles[i + 1] <= angles[i] ELSE angles[i + 1] >= angles[i]
    /\ IF seg.type = "arc_cw"
       THEN angles[1] - angles[Len(angles)] \in 1..8
       ELSE angles[Len(angles)] - angles[1] \in 1..8
    /\ DirectionOf(seg.start, seg.center, seg.plane) = DirectionOf(seg.end, seg.center, seg.plane)
          => Abs(angles[Len(angles)] - angles[1]) = 8
    /\ Len(points) = Len(angles)
    /\ \A i \in 1..Len(points) :
          InPlane(points[i], seg.plane) =
              <<InPlane(seg.center, seg.plane)[1] + (RadiusOf(seg) \div 1000) * cos(angles[i]),
                InPlane(seg.center, seg.plane)[2] + (RadiusOf(seg) \div 1000) * sin(angles[i])>>

Tool(tool_type, diameter, length) ==
    [tool_type |-> tool_type, diameter |-> diameter, length |-> length]

radius(tool) == tool.diameter \div 2

\* int(a / b) for b > 0: the quotient truncated toward zero
int_div(a, b) == IF a < 0 THEN -((-a) \div b) ELSE a \div b

Min(a, b) == IF a < b THEN a ELSE b
Max(a, b) == IF a > b THEN a ELSE b

\* np.clip(v, lo, hi)
clip(v, lo, hi) == Max(lo, Min(v, hi))

\* np.sqrt, rounded down to a whole tenth
sqrt(v) == CHOOSE r \in 0..v : r * r <= v /\ (r + 1) * (r + 1) > v

StockConfig(width, depth, height, resolution, origin_x, origin_y, origin_z) ==
    [width |-> width, depth |-> depth, height |-> height, resolution |-> resolution,
     origin_x |-> origin_x, origin_y |-> origin_y, origin_z |-> origin_z]

nx(config) == Min(int_div(config.width, config.resolution) + 1, 500)
ny(config) == Min(int_div(config.depth, config.resolution) + 1, 500)

Cells(config) == (0..(nx(config) - 1)) \X (0..(ny(config) - 1))

\* TriDexelBoard.__init__
TriDexelBoard(config) ==
    [config |-> config,
     xy_board |-> [c \in Cells(config) |-> config.origin_z + config.height],
     total_removed_volume |-> 0,
     cut_points |-> <<>>]

\* world_to_grid: the x and y indices
world_to_grid(config, x, y) ==
    <<clip(int_div(x - config.origin_x, config.resolution), 0, nx(config) - 1),
      clip(int_div(y - config.origin_y, config.resolution), 0, ny(config) - 1)>>

\* grid_to_world: the x and y coordinates
grid_to_world(config, gx, gy) ==
    <<config.origin_x + gx * config.resolution, config.origin_y + gy * config.resolution>>

dist_sq(config, c, x, y) ==
    (grid_to_world(config, c[1], c[2])[1] - x) * (grid_to_world(config, c[1], c[2])[1] - x)
        + (grid_to_world(config, c[1], c[2])[2] - y) * (grid_to_world(config, c[1], c[2])[2] - y)

\* the cells the two loops of apply_cutter reach and find within the radius
cells_cut(config, g, grid_radius, x, y, tool) ==
    { c \in Cells(config) :
        /\ c[1] - g[1] \in (-grid_radius)..grid_radius
        /\ c[2] - g[2] \in (-grid_radius)..grid_radius
        /\ dist_sq(config, c, x, y) <= radius(tool) * radius(tool) }

effective_z(config, c, x, y, z_cut, tool) ==
    IF tool.tool_type = "ball"
    THEN z_cut + sqrt(Max(0, radius(tool) * radius(tool) - dist_sq(config, c, x, y)))
    ELSE z_cut

\* the new height of a cell within the radius, without the test against old_z
cut_height_unguarded(config, old_z, eff_z) == Max(eff_z, config.origin_z)

\* the new height of a cell within the radius
cut_height(config, old_z, eff_z) ==
    IF eff_z < old_z THEN Max(eff_z, config.origin_z) ELSE old_z

RECURSIVE sum_over(_, _)
sum_over(f, S) ==
    IF S = {} THEN 0
    ELSE LET c == CHOOSE e \in S : TRUE IN f[c] + sum_over(f, S \ {c})

\* the two loops of apply_cutter over the cells within the radius: xy_board
\* after them
RECURSIVE cut_board(_, _, _, _, _, _)
cut_board(B, cut, x, y, z_cut, tool) ==
    IF cut = {} THEN B.xy_board
    ELSE LET c == CHOOSE e \in cut : TRUE
         IN  cut_board([B EXCEPT !.xy_board[c] =
                            cut_height(B.config, @,
                                       effective_z(B.config, c, x, y, z_cut, tool))],
                       cut \ {c}, x, y, z_cut, tool)

\* apply_cutter from the loops on: the board and the return value
cutter_result(B, new_board, total_removed, x, y, z) ==
    [board |-> [B EXCEPT !.xy_board = new_board,
                         !.total_removed_volume =
                             @ + total_removed * B.config.resolution * B.config.resolution,
                         !.cut_points = IF total_removed > 0 THEN Append(@, <<x, y, z>>) ELSE @],
     value |-> total_removed * B.config.resolution * B.config.resolution]

cutter_removed(B, new_board) ==
    sum_over([c \in Cells(B.config) |-> B.xy_board[c] - new_board[c]], Cells(B.config))

apply_cutter(B, x, y, z, tool) ==
    IF z >= B.config.origin_z + B.config.height
    THEN [board |-> B, value |-> 0]
    ELSE LET new_board ==
                cut_board(B,
                          cells_cut(B.config, world_to_grid(B.config, x, y),
                                    int_div(radius(tool), B.config.resolution) + 1, x, y, tool),
                          x, y, z - tool.length, tool)
         IN  cutter_result(B, new_board, cutter_removed(B, new_board), x, y, z)

\* TriDexelBoard.get_stats; removal_percent is kept as the fraction
\* removed_volume / total_volume, the factor 100 left out
get_stats(B) ==
    [total_volume_mm3 |-> B.config.width * B.config.depth * B.config.height,
     removed_volume_mm3 |-> B.total_removed_volume,
     remaining_volume_mm3 |->
         B.config.width * B.config.depth * B.config.height - B.total_removed_volume,
     removal_percent |->
         IF B.config.width * B.config.depth * B.config.height > 0
         THEN <<B.total_removed_volume, B.config.width * B.config.depth * B.config.height>>
         ELSE <<0, 1>>,
     cut_points |-> Len(B.cut_points)]

MaxCuts == 2

StockConfigs == { StockConfig(40, 40, 40, 20, -20, -20, 10) }

Tools == { Tool("flat", 20, 0), Tool("flat", 50, 20), Tool("ball", 40, 0) }

CutterPositions == {-20, 10, 50} \X {0, 30} \X {0, 30, 50, 60}

InitStock ==
    /\ \E config \in StockConfigs : board = TriDexelBoard(config)
    /\ removed = [calls |-> 0, args |-> <<>>, value |-> 0]
    /\ sim = None
    /\ NoParser /\ NoLexer /\ NoMachine /\ NoCollision

ApplyCutter ==
    /\ removed.calls < MaxCuts
    /\ \E p \in CutterPositions, tool \in Tools :
          \E r \in {apply_cutter(board, p[1], p[2], p[3], tool)} :
             /\ board' = r.board
             /\ removed' = [calls |-> removed.calls + 1,
                            args |-> <<p[1], p[2], p[3], tool>>,
                            value |-> r.value]
    /\ UNCHANGED <<sim, parserVars, lexerVars, machineVars, collisionVars>>

SpecStock == InitStock /\ [][ApplyCutter]_vars

(***************************************************************************)
(* Claims on the stock model.                                              *)
(***************************************************************************)
WithinRadius(config, c, x, y, tool) ==
    4 * dist_sq(config, c, x, y) <= tool.diameter * tool.diameter

\* C20: apply_cutter(x, y, z, tool) with a flat endmill treats z as the height
\* of the tool tip.  When z is below the stock top, every grid cell whose
\* centre lies within tool.radius of (x, y) ends at min(old height,
\* max(z, stock floor)) and every other cell is unchanged; when z is at or
\* above the stock top no cell changes and 0 is returned.
C20_FlatEndmillCutsToTip ==
    [][removed'.args[4].tool_type = "flat" =>
          IF removed'.args[3] >= board.config.origin_z + board.config.height
          THEN board'.xy_board = board.xy_board /\ removed'.value = 0
          ELSE \A c \in Cells(board.config) :
                  board'.xy_board[c] =
                      IF WithinRadius(board.config, c, removed'.args[1], removed'.args[2],
                                      removed'.args[4])
                      THEN Min(board.xy_board[c], Max(removed'.args[3], board.config.origin_z))
                      ELSE board.xy_board[c]
    ]_vars

\* C21: monotonic removal.  On a board whose stock height is not negative,
\* no apply_cutter call, flat or ball, raises the stored height of any grid
\* cell, so no cell is ever higher than before the sequence of calls; every
\* call returns a removed volume >= 0; total_removed_volume never decreases.
C21_MonotonicRemoval ==
    /\ [](board.config.height >= 0 =>
             \A c \in Cells(board.config) :
                board.xy_board[c] <= board.config.origin_z + board.config.height)
    /\ [][board.config.height >= 0 =>
             /\ \A c \in Cells(board.config) : board'.xy_board[c] <= board.xy_board[c]
             /\ removed'.value >= 0
             /\ board'.total_removed_volume >= board.total_removed_volume
             /\ board'.total_removed_volume = board.total_removed_volume + removed'.value
         ]_vars

\* a ball tool has cut after an earlier cut, and a later call higher up has
\* left a cell that was cut deeper as it was
C21_Witness ==
    /\ removed.calls = 2
    /\ removed.args[4].tool_type = "ball"
    /\ removed.value > 0
    /\ Len(board.cut_points) = 2
    /\ \E c \in Cells(board.config) :
          /\ board.xy_board[c] < removed.args[3] - removed.args[4].length
          /\ WithinRadius(board.config, c, removed.args[1], removed.args[2], removed.args[4])

\* C30: after any sequence of apply_cutter calls on a board with positive
\* width, depth, height and resolution, get_stats reports
\* 0 <= removed_volume_mm3 <= total_volume_mm3 = width x depth x height, hence
\* remaining_volume_mm3 >= 0 and removal_percent <= 100.
C30_RemovedWithinTotal ==
    (board.config.width > 0 /\ board.config.depth > 0 /\ board.config.height > 0
        /\ board.config.resolution > 0) =>
       /\ get_stats(board).total_volume_mm3
             = board.config.width * board.config.depth * board.config.height
       /\ get_stats(board).removed_volume_mm3 >= 0
       /\ get_stats(board).removed_volume_mm3 <= get_stats(board).total_volume_mm3
       /\ get_stats(board).remaining_volume_mm3 >= 0
       /\ get_stats(board).removal_percent[1] <= get_stats(board).removal_percent[2]

(***************************************************************************)
(* The stock simulator (StockSimulator).  sim is the simulator object      *)
(* without its board, which is the variable board: reset() binds a new     *)
(* TriDexelBoard to it.  removed is what the caller holds: the last call,  *)
(* the value it returned, and, during simulate_toolpath, the position of   *)
(* its loop and the values on_progress has been called with.               *)
(***************************************************************************)
StockSimulator(config) ==
    [config |-> config, current_tool |-> None,
     air_cut_segments |-> <<>>, cut_segments |-> <<>>]

set_tool(S, tool) == [S EXCEPT !.current_tool = Some(tool)]

\* reset(): the simulator; its board becomes TriDexelBoard(S.config)
reset(S) == [S EXCEPT !.air_cut_segments = <<>>, !.cut_segments = <<>>]

\* the cell get_height_at reads for the ring sample at `angle` (eighths of a
\* turn): world_to_grid of x + radius * 0.5 * cos(angle), y + radius * 0.5 *
\* sin(angle), computed in 1/2000 of a tenth
ring_cell(config, x, y, tool, angle) ==
    <<clip(int_div(2000 * (x - config.origin_x) + radius(tool) * cos(angle),
                   2000 * config.resolution), 0, nx(config) - 1),
      clip(int_div(2000 * (y - config.origin_y) + radius(tool) * sin(angle),
                   2000 * config.resolution), 0, ny(config) - 1)>>

is_air_cut(B, x, y, z, tool) ==
    \A angle \in 0..7 :
        ~(z - tool.length <= B.xy_board[ring_cell(B.config, x, y, tool, angle)])

distance_sq(start, end) ==
    (end[1] - start[1]) * (end[1] - start[1]) + (end[2] - start[2]) * (end[2] - start[2])
        + (end[3] - start[3]) * (end[3] - start[3])

\* min(max(int(distance / resolution), 2), 50)
steps_of(config, start, end) ==
    Min(Max(CHOOSE k \in 0..(sqrt(distance_sq(start, end)) \div config.resolution + 1) :
               /\ k * k * config.resolution * config.resolution <= distance_sq(start, end)
               /\ (k + 1) * (k + 1) * config.resolution * config.resolution
                     > distance_sq(start, end),
            2), 50)

\* pos = start + (i / steps) * (end - start)
sample_position(start, end, steps, i) ==
    [a \in 1..3 |-> start[a] + int_div(i * (end[a] - start[a]), steps)]

\* the loop `for i in range(steps + 1)` from sample i on, the board of the
\* samples before i being B
RECURSIVE sample_loop(_, _, _, _, _, _, _, _)
sample_loop(B, total_removed, was_air_cut, tool, start, end, steps, i) ==
    IF i > steps
    THEN [board |-> B, total_removed |-> total_removed, was_air_cut |-> was_air_cut]
    ELSE IF is_air_cut(B, sample_position(start, end, steps, i)[1],
                       sample_position(start, end, steps, i)[2],
                       sample_position(start, end, steps, i)[3], tool)
    THEN sample_loop(B, total_removed, was_air_cut, tool, start, end, steps, i + 1)
    ELSE sample_loop(apply_cutter(B, sample_position(start, end, steps, i)[1],
                                  sample_position(start, end, steps, i)[2],
                                  sample_position(start, end, steps, i)[3], tool).board,
                     total_removed
                        + apply_cutter(B, sample_position(start, end, steps, i)[1],
                                       sample_position(start, end, steps, i)[2],
                                       sample_position(start, end, steps, i)[3], tool).value,
                     FALSE, tool, start, end, steps, i + 1)

\* simulate_move after the loop: the segment lists and the returned dict
move_result(S, run, start, end, steps) ==
    [sim |-> IF run.was_air_cut
             THEN [S EXCEPT !.air_cut_segments = Append(@, <<start, end>>)]
             ELSE [S EXCEPT !.cut_segments = Append(@, <<start, end>>)],
     board |-> run.board,
     value |-> [removed_volume |-> run.total_removed, is_air_cut |-> run.was_air_cut,
                steps |-> steps]]

simulate_move(S, B, start, end) ==
    IF IsNone(S.current_tool)
    THEN [sim |-> S, board |-> B, value |-> [error |-> "No tool set"]]
    ELSE IF distance_sq(start, end) = 0
    THEN [sim |-> S, board |-> B, value |-> [removed_volume |-> 0, is_air_cut |-> TRUE]]
    ELSE move_result(S,
                     sample_loop(B, 0, TRUE, Val(S.current_tool), start, end,
                                 steps_of(S.config, start, end), 0),
                     start, end, steps_of(S.config, start, end))

\* the argument of on_progress for the i-th of total_segments segments,
\* (i + 1) / total_segments * 100, kept as numerator and denominator;
\* first with i in place of i + 1
progress_value_from_zero(i, total_segments) == <<i * 100, total_segments>>

progress_value(i, total_segments) == <<(i + 1) * 100, total_segments>>

\* StockSimulator.get_stats
simulator_stats(S, B) ==
    [board |-> get_stats(B), air_cut_segments |-> Len(S.air_cut_segments),
     cut_segments |-> Len(S.cut_segments)]

SimTools == { Tool("flat", 20, 0), Tool("flat", 36, 0), Tool("ball", 40, 20) }

Move(start, end) == [start |-> start, end |-> end]

Moves ==
    { Move(<<0, 0, 30>>, <<0, 0, 10>>), Move(<<10, 10, 30>>, <<10, 10, 32>>),
      Move(<<-20, 0, 30>>, <<20, 0, 30>>), Move(<<0, 0, 60>>, <<0, 0, 60>>),
      Move(<<-30, 0, 20>>, <<30, 0, 20>>), Move(<<-500, 0, 30>>, <<500, 0, 30>>) }

Toolpaths ==
    { <<>>,
      << Move(<<0, 0, 30>>, <<0, 0, 10>>) >>,
      << Move(<<-20, 0, 60>>, <<20, 0, 60>>), Move(<<0, 0, 60>>, <<0, 0, 60>>),
         Move(<<-30, 0, 20>>, <<30, 0, 20>>) >> }

Idle(calls, call, value, progress) ==
    [calls |-> calls, call |-> call, value |-> value, pc |-> "idle", i |-> 0,
     progress |-> progress]

InitSimulator ==
    /\ \E config \in StockConfigs :
          /\ sim = StockSimulator(config)
          /\ board = TriDexelBoard(config)
    /\ removed = Idle(0, Called("none", <<>>), <<>>, <<>>)
    /\ NoParser /\ NoLexer /\ NoMachine /\ NoCollision

SetTool ==
    /\ removed.pc = "idle"
    /\ \E tool \in SimTools :
          /\ sim.current_tool # Some(tool)
          /\ sim' = set_tool(sim, tool)
    /\ UNCHANGED <<board, removed, parserVars, lexerVars, machineVars, collisionVars>>

SimulateMove ==
    /\ removed.pc = "idle" /\ removed.calls < MaxCuts
    /\ \E m \in Moves :
          \E r \in {simulate_move(sim, board, m.start, m.end)} :
             /\ sim' = r.sim
             /\ board' = r.board
             /\ removed' = Idle(removed.calls + 1, Called("simulate_move", m), r.value,
                                removed.progress)
    /\ UNCHANGED <<parserVars, lexerVars, machineVars, collisionVars>>

\* simulate_toolpath up to its loop: reset(), set_tool(tool)
ToolpathStart ==
    /\ removed.pc = "idle" /\ removed.calls < MaxCuts
    /\ \E segs \in Toolpaths, tool \in SimTools, on_progress \in BOOLEAN :
          /\ sim' = set_tool(reset(sim), tool)
          /\ board' = TriDexelBoard(sim.config)
          /\ removed' = [calls |-> removed.calls + 1,
                         call |-> Called("simulate_toolpath", <<segs, tool, on_progress>>),
                         value |-> <<>>, pc |-> "toolpath", i |-> 0, progress |-> <<>>]
    /\ UNCHANGED <<parserVars, lexerVars, machineVars, collisionVars>>

\* one iteration of the loop: simulate_move, then on_progress if it is given
ToolpathSegment ==
    /\ removed.pc = "toolpath" /\ removed.i < Len(removed.call.args[1])
    /\ \E r \in {simulate_move(sim, board, removed.call.args[1][removed.i + 1].start,
                               removed.call.args[1][removed.i + 1].end)} :
          /\ sim' = r.sim
          /\ board' = r.board
    /\ removed' = [removed EXCEPT
                      !.i = @ + 1,
                      !.progress = IF removed.call.args[3]
                                   THEN Append(@, progress_value(removed.i,
                                                                 Len(removed.call.args[1])))
                                   ELSE @]
    /\ UNCHANGED <<parserVars, lexerVars, machineVars, collisionVars>>

\* the loop is exhausted: `return self.get_stats()`
ToolpathReturn ==
    /\ removed.pc = "toolpath" /\ removed.i = Len(removed.call.args[1])
    /\ removed' = [removed EXCEPT !.pc = "idle", !.value = simulator_stats(sim, board)]
    /\ UNCHANGED <<sim, board, parserVars, lexerVars, machineVars, collisionVars>>

NextSimulator ==
    SetTool \/ SimulateMove \/ ToolpathStart \/ ToolpathSegment \/ ToolpathReturn

SpecSimulator == InitSimulator /\ [][NextSimulator]_vars

\* the cutting height of the tool over cell c when it stands at the point `at`
CuttingHeight(config, c, at, tool) ==
    Max(effective_z(config, c, at[1], at[2], at[3] - tool.length, tool), config.origin_z)

\* C22: simulate_move applies the cutter at every sample position of the move
\* (steps + 1 evenly spaced positions from start to end).  After a call with a
\* tool set and a move of non-zero length, every grid cell within the tool
\* radius of a sample position is no higher than the cutting height of the
\* tool at that sample, bounded below by the stock floor.
C22_EverySampleIsCut ==
    [][(removed'.calls = removed.calls + 1 /\ removed'.call.op = "simulate_move"
          /\ ~IsNone(sim.current_tool)
          /\ removed'.call.args.start # removed'.call.args.end) =>
          \E steps \in {steps_of(sim.config, removed'.call.args.start,
                                 removed'.call.args.end)} :
             \A i \in 0..steps :
                \E at \in {sample_position(removed'.call.args.start,
                                            removed'.call.args.end, steps, i)} :
                   \A c \in Cells(board.config) :
                      WithinRadius(board.config, c, at[1], at[2], Val(sim.current_tool))
                      => board'.xy_board[c] <=
                            CuttingHeight(board.config, c, at, Val(sim.current_tool))
    ]_vars

\* a / b < c / d for fractions <<a, b>> and <<c, d>> with positive denominators
Less(p, q) == p[1] * q[2] < q[1] * p[2]

\* C23: simulate_toolpath resets the simulator first (a new board, empty
\* segment lists) and sets the tool, processes the segments in list order, and,
\* when on_progress is given, calls it exactly once after each segment, the
\* k-th call with k / n * 100 for n segments; the reported values are strictly
\* increasing, the last one is 100, and for an empty list there is no call.
C23_ToolpathProgress ==
    /\ [](removed.call.op = "simulate_toolpath" =>
            /\ Len(removed.progress) = IF removed.call.args[3] THEN removed.i ELSE 0
            /\ removed.i <= Len(removed.call.args[1])
            /\ removed.pc = "idle" => removed.i = Len(removed.call.args[1])
            /\ \A k \in 1..Len(removed.progress) :
                  /\ removed.progress[k][2] > 0
                  /\ removed.progress[k][1] * Len(removed.call.args[1])
                        = k * 100 * removed.progress[k][2]
                  /\ k > 1 => Less(removed.progress[k - 1], removed.progress[k])
                  /\ k = Len(removed.call.args[1])
                        => removed.progress[k][1] = 100 * removed.progress[k][2])
    /\ [][(removed'.calls = removed.calls + 1 /\ removed'.call.op = "simulate_toolpath") =>
             /\ board' = TriDexelBoard(sim.config)
             /\ sim'.air_cut_segments = <<>> /\ sim'.cut_segments = <<>>
             /\ sim'.current_tool = Some(removed'.call.args[2])
             /\ removed'.progress = <<>> /\ removed'.i = 0
         ]_vars
    /\ [][(removed.pc = "toolpath" /\ removed'.pc = "toolpath" /\ removed' # removed) =>
             /\ removed'.i = removed.i + 1
             /\ \E seg \in {removed.call.args[1][removed.i + 1]} :
                   IF seg.start = seg.end
                   THEN sim' = sim /\ board' = board
                   ELSE \/ /\ sim'.cut_segments = Append(sim.cut_segments, <<seg.start, seg.end>>)
                           /\ sim'.air_cut_segments = sim.air_cut_segments
                        \/ /\ sim'.air_cut_segments
                                 = Append(sim.air_cut_segments, <<seg.start, seg.end>>)
                           /\ sim'.cut_segments = sim.cut_segments
                           /\ board' = board
         ]_vars

C23_Witness ==
    /\ removed.calls = 2 /\ removed.call.op = "simulate_toolpath" /\ removed.pc = "idle"
    /\ removed.call.args[3] /\ Len(removed.call.args[1]) = 3
    /\ Len(removed.progress) = 3 /\ removed.progress[3] = <<300, 3>>
    /\ Len(sim.cut_segments) = 1 /\ Len(sim.air_cut_segments) = 1
    /\ removed.value.board.removed_volume_mm3 > 0

\* the values of the G words that _tokenize_line's pattern finds on a line
GWordsOf(line) ==
    IF line = <<>> \/ line[1].type = "COMMENT" THEN <<>>
    ELSE [n \in 1..Len(SelectSeq(before_semicolon(line, 1), LAMBDA t : t.type = "G")) |->
             SelectSeq(before_semicolon(line, 1), LAMBDA t : t.type = "G")[n].value]

\* the G words of lines 1..k, in order
RECURSIVE GWordsUpTo(_)
GWordsUpTo(k) == IF k = 0 THEN <<>> ELSE GWordsUpTo(k - 1) \o GWordsOf(lines[k])

\* the last of the values in vals among ws, else default
LastG(ws, vals, default) ==
    IF {n \in 1..Len(ws) : ws[n] \in vals} = {} THEN default
    ELSE ws[CHOOSE n \in 1..Len(ws) :
               ws[n] \in vals /\ \A k \in (n + 1)..Len(ws) : ws[k] \notin vals]

\* C27: in the line-based parse_string every G word on a line updates the
\* modal field of its group, so several G words on one line all take effect:
\* after each line the distance mode is the one of the last G90/G91 word so far
\* and the motion mode the one of the last G0..G3 word so far, and `G91 G1 X5`
\* issued twice from the origin gives a second segment from (5,0,0) to
\* (10,0,0).
C27_EveryGWordTakesEffect ==
    mode = "line" =>
      /\ pc = "line" =>
            /\ heap.nodes[modal].absolute = (LastG(GWordsUpTo(blockIdx - 1), {90, 91}, 90) = 90)
            /\ heap.nodes[modal].motion =
                  <<"G00", "G01", "G02", "G03">>[LastG(GWordsUpTo(blockIdx - 1), 0..3, 1) + 1]
      /\ (pc = "done" /\ tokens = ScenarioC /\ args.metric
             /\ args.initial_position = <<0, 0, 0>>) =>
            /\ Len(segments) = 2
            /\ SegStart(segments[2]) = <<5, 0, 0>>
            /\ SegEnd(segments[2]) = <<10, 0, 0>>

\* C28: after any sequence of set_wcs, set_wcs_offset, move_to_work and
\* move_to_machine calls, the stored state has machine position = work
\* position + offset of the active WCS on every axis, and its active_wcs is
\* the active_wcs of the work coordinate system.
C28_StoredStateConsistent ==
    /\ \A i \in 1..3 :
          position_machine(current(kin))[i]
              = position_work(current(kin))[i] + ActiveOffset(kin)[i]
    /\ current(kin).active_wcs = kin.wcs.active_wcs

----------------------------------------------------------------------------
(***************************************************************************)
(* Collision detection (simulation/collision.py).  Lengths are whole       *)
(* millimetres.  A BoundingBox is a mutable object: expand_to_include      *)
(* changes it in place, clone and expanded make a new one.  The boxes of   *)
(* colliders and tree nodes live in bboxes and are held by address; the    *)
(* boxes check_tool_at_position makes for the tool and the holder are      *)
(* locals that nothing changes, and are values.  A collider is [name,      *)
(* kind, bbox]: kind is its class, bbox the address of its box.            *)
(***************************************************************************)
BoundingBox(min_x, min_y, min_z, max_x, max_y, max_z) ==
    [min_x |-> min_x, min_y |-> min_y, min_z |-> min_z,
     max_x |-> max_x, max_y |-> max_y, max_z |-> max_z]

\* BoundingBox.center; the boxes of the model have even min + max
bbox_center(b) ==
    <<(b.min_x + b.max_x) \div 2, (b.min_y + b.max_y) \div 2, (b.min_z + b.max_z) \div 2>>

bbox_size(b) == <<b.max_x - b.min_x, b.max_y - b.min_y, b.max_z - b.min_z>>

\* intersects with strict comparisons: boxes that only touch do not intersect
intersects_strict(a, b) ==
    /\ a.min_x < b.max_x /\ a.max_x > b.min_x
    /\ a.min_y < b.max_y /\ a.max_y > b.min_y
    /\ a.min_z < b.max_z /\ a.max_z > b.min_z

intersects(a, b) ==
    /\ a.min_x <= b.max_x /\ a.max_x >= b.min_x
    /\ a.min_y <= b.max_y /\ a.max_y >= b.min_y
    /\ a.min_z <= b.max_z /\ a.max_z >= b.min_z

\* self.expand_to_include(other) on the boxes at addresses self_ and other
expand_to_include(H, self_, other) ==
    [H EXCEPT ![self_] =
        BoundingBox(Min(@.min_x, H[other].min_x), Min(@.min_y, H[other].min_y),
                    Min(@.min_z, H[other].min_z), Max(@.max_x, H[other].max_x),
                    Max(@.max_y, H[other].max_y), Max(@.max_z, H[other].max_z))]

expanded(b, margin) ==
    BoundingBox(b.min_x - margin, b.min_y - margin, b.min_z - margin,
                b.max_x + margin, b.max_y + margin, b.max_z + margin)

\* BoundingBox.clone: the new box has address Len(H) + 1
bbox_clone(H, a) == Append(H, H[a])

\* Collider.get_bbox_at_position, b the collider's box
get_bbox_at_position(b, at) ==
    BoundingBox(b.min_x + (at[1] - bbox_center(b)[1]), b.min_y + (at[2] - bbox_center(b)[2]),
                b.min_z + (at[3] - bbox_center(b)[3]), b.max_x + (at[1] - bbox_center(b)[1]),
                b.max_y + (at[2] - bbox_center(b)[2]), b.max_z + (at[3] - bbox_center(b)[3]))

\* ToolCollider: __post_init__ replaces the box
ToolCollider(name, diameter, length) ==
    [name |-> name, diameter |-> diameter, length |-> length,
     bbox |-> BoundingBox(-(diameter \div 2), -(diameter \div 2), -length,
                          diameter \div 2, diameter \div 2, 0)]

ToolHolderCollider(name, diameter, length) ==
    [name |-> name, diameter |-> diameter, length |-> length,
     bbox |-> BoundingBox(-(diameter \div 2), -(diameter \div 2), 0,
                          diameter \div 2, diameter \div 2, length)]

StockCollider(bbox) == [name |-> "Stock", kind |-> "StockCollider", bbox |-> bbox]

FixtureCollider(bbox, name) == [name |-> name, kind |-> "FixtureCollider", bbox |-> bbox]

CollisionEvent(collider_a, collider_b, collision_type, at, penetration_depth, block_number) ==
    [collider_a |-> collider_a, collider_b |-> collider_b,
     collision_type |-> collision_type, position |-> at,
     penetration_depth |-> penetration_depth, block_number |-> block_number]

\* AABBTree.__init__; self.colliders is the list given to build, which no
\* method reads
AABBTree(max_depth) == [max_depth |-> max_depth, root |-> None]

\* `for c in colliders[i:]: target.expand_to_include(c.bbox)`, i 1-based
RECURSIVE expand_all(_, _, _, _)
expand_all(H, target, colliders, i) ==
    IF i > Len(colliders) THEN H
    ELSE expand_all(expand_to_include(H, target, colliders[i].bbox), target, colliders, i + 1)

\* int(np.argmax(size)) + 1: the first axis of the largest size
argmax(size) ==
    IF size[1] >= size[2] /\ size[1] >= size[3] THEN 1
    ELSE IF size[2] >= size[3] THEN 2
    ELSE 3

\* sorted(colliders, key=lambda c: c.bbox.center[axis]): stable
RECURSIVE insert_sorted(_, _, _, _)
insert_sorted(H, done, c, axis) ==
    IF done = <<>> THEN <<c>>
    ELSE IF bbox_center(H[done[Len(done)].bbox])[axis] <= bbox_center(H[c.bbox])[axis]
    THEN Append(done, c)
    ELSE Append(insert_sorted(H, SubSeq(done, 1, Len(done) - 1), c, axis), done[Len(done)])

RECURSIVE sorted_colliders(_, _, _, _)
sorted_colliders(H, colliders, axis, n) ==
    IF n = 0 THEN <<>>
    ELSE insert_sorted(H, sorted_colliders(H, colliders, axis, n - 1), colliders[n], axis)

Node(bbox, colliders, children) ==
    [bbox |-> bbox, colliders |-> colliders, children |-> children]

\* a child box: colliders[0].bbox.clone(), expanded to include the others
child_bbox(H, colliders) ==
    expand_all(bbox_clone(H, colliders[1].bbox), Len(H) + 1, colliders, 2)

\* _build_node: the boxes and the node
RECURSIVE build_node(_, _, _, _, _)
build_children(max_depth, right_colliders, right_bbox, bbox, depth, left) ==
    [bboxes |-> build_node(max_depth, left.bboxes, right_colliders, right_bbox,
                           depth + 1).bboxes,
     node |-> Node(bbox, <<>>,
                   <<left.node,
                     build_node(max_depth, left.bboxes, right_colliders, right_bbox,
                                depth + 1).node>>)]

build_halves(max_depth, H, left_colliders, right_colliders, bbox, depth) ==
    build_children(max_depth, right_colliders, Len(H) + 2, bbox, depth,
                   build_node(max_depth,
                              child_bbox(child_bbox(H, left_colliders), right_colliders),
                              left_colliders, Len(H) + 1, depth + 1))

build_split(max_depth, H, sorted, bbox, depth) ==
    build_halves(max_depth, H, SubSeq(sorted, 1, Len(sorted) \div 2),
                 SubSeq(sorted, Len(sorted) \div 2 + 1, Len(sorted)), bbox, depth)

build_node(max_depth, H, colliders, bbox, depth) ==
    IF depth >= max_depth \/ Len(colliders) <= 2
    THEN [bboxes |-> H, node |-> Node(bbox, colliders, <<>>)]
    ELSE build_split(max_depth, H,
                     sorted_colliders(H, colliders, argmax(bbox_size(H[bbox])),
                                      Len(colliders)),
                     bbox, depth)

\* AABBTree.build: global_bbox is the box object of the first collider
tree_build(T, H, colliders) ==
    IF colliders = <<>> THEN [bboxes |-> H, tree |-> [T EXCEPT !.root = None]]
    ELSE [bboxes |-> build_node(T.max_depth,
                                expand_all(H, colliders[1].bbox, colliders, 2),
                                colliders, colliders[1].bbox, 0).bboxes,
          tree |-> [T EXCEPT !.root =
                        Some(build_node(T.max_depth,
                                        expand_all(H, colliders[1].bbox, colliders, 2),
                                        colliders, colliders[1].bbox, 0).node)]]

\* _query_node: results after the call
RECURSIVE query_node(_, _, _, _)
RECURSIVE query_children(_, _, _, _, _)
query_children(H, children, i, bbox, results) ==
    IF i > Len(children) THEN results
    ELSE query_children(H, children, i + 1, bbox, query_node(H, children[i], bbox, results))

query_node(H, node, bbox, results) ==
    IF IsNone(node) THEN results
    ELSE IF ~intersects(bbox, H[Val(node).bbox]) THEN results
    ELSE query_children(H, [i \in 1..Len(Val(node).children) |-> Some(Val(node).children[i])],
                        1, bbox, results \o Val(node).colliders)

query_collisions(T, H, moving_bbox) == query_node(H, T.root, moving_bbox, <<>>)

\* CollisionDetector.__init__; the AABBTree() it makes is the variable tree
CollisionDetector ==
    [static_colliders |-> <<>>, dynamic_colliders |-> <<>>, collision_history |-> <<>>,
     tool_holder_margin |-> 1, spindle_margin |-> 5]

add_static_collider(D, collider) ==
    [D EXCEPT !.static_colliders = Append(@, collider)]

calculate_penetration(bbox_a, bbox_b) ==
    Min(Min(Min(bbox_a.max_x, bbox_b.max_x) - Max(bbox_a.min_x, bbox_b.min_x),
            Min(bbox_a.max_y, bbox_b.max_y) - Max(bbox_a.min_y, bbox_b.min_y)),
        Min(bbox_a.max_z, bbox_b.max_z) - Max(bbox_a.min_z, bbox_b.min_z))

\* the two loops of check_tool_at_position over the candidates of one box:
\* the colliders of the given classes that the box intersects with an
\* overlap > 0.01, an event for each
hits(H, potential_collisions, kinds, bbox) ==
    SelectSeq(potential_collisions,
              LAMBDA c : /\ c.kind \in kinds
                         /\ intersects(bbox, H[c.bbox])
                         /\ 100 * calculate_penetration(bbox, H[c.bbox]) > 1)

events_of(H, colliders, collider_a, collision_type, bbox, at, block_number) ==
    [i \in 1..Len(colliders) |->
        CollisionEvent(collider_a, colliders[i].name, collision_type, at,
                       calculate_penetration(bbox, H[colliders[i].bbox]), block_number)]

\* holder_pos = position + np.array([0, 0, tool.length])
holder_pos(tool, at) == <<at[1], at[2], at[3] + tool.length>>

\* check_tool_at_position: the returned events, and the locals tool_bbox and
\* holder_bbox
check_tool_at_position(D, T, H, tool, holder, at, block_number) ==
    [events |->
        events_of(H, hits(H, query_collisions(T, H, get_bbox_at_position(tool.bbox, at)),
                          {"StockCollider"}, get_bbox_at_position(tool.bbox, at)),
                  tool.name, "TOOL_STOCK", get_bbox_at_position(tool.bbox, at), at,
                  block_number)
        \o events_of(H,
                     hits(H,
                          query_collisions(T, H,
                              expanded(get_bbox_at_position(holder.bbox, holder_pos(tool, at)),
                                       D.tool_holder_margin)),
                          {"StockCollider", "FixtureCollider"},
                          expanded(get_bbox_at_position(holder.bbox, holder_pos(tool, at)),
                                   D.tool_holder_margin)),
                     holder.name, "TOOL_HOLDER_STOCK",
                     expanded(get_bbox_at_position(holder.bbox, holder_pos(tool, at)),
                              D.tool_holder_margin),
                     holder_pos(tool, at), block_number),
     tool_bbox |-> get_bbox_at_position(tool.bbox, at),
     holder_bbox |-> get_bbox_at_position(holder.bbox, holder_pos(tool, at))]

\* check_continuous_motion: all_events after the samples i..steps
RECURSIVE check_continuous_motion(_, _, _, _, _, _, _, _, _, _)
check_continuous_motion(D, T, H, tool, holder, start_pos, end_pos, steps, block_number, i) ==
    IF i > steps THEN <<>>
    ELSE check_tool_at_position(D, T, H, tool, holder,
                                sample_position(start_pos, end_pos, steps, i),
                                block_number).events
         \o check_continuous_motion(D, T, H, tool, holder, start_pos, end_pos, steps,
                                    block_number, i + 1)

count_of(history, type_name) ==
    Len(SelectSeq(history, LAMBDA e : e.collision_type = type_name))

get_collision_stats(D) ==
    [total_collisions |-> Len(D.collision_history),
     by_type |-> [t \in {D.collision_history[i].collision_type :
                           i \in 1..Len(D.collision_history)} |->
                     count_of(D.collision_history, t)],
     tool_holder_collisions |-> count_of(D.collision_history, "TOOL_HOLDER_STOCK")]

(***************************************************************************)
(* Runs of the detector.  A caller adds up to MaxColliders static          *)
(* colliders, each with a box of its own, and makes up to MaxCalls calls.  *)
(* found.added lists the boxes the colliders were added with and           *)
(* found.produced counts the events the calls have returned; tool_bbox and *)
(* holder_bbox are the locals of the last check_tool_at_position.          *)
(***************************************************************************)
MaxColliders == 4

StockBoxes == { BoundingBox(-10, -10, 0, 10, 10, 10) }
FixtureBoxes == { BoundingBox(20, -10, 0, 30, 10, 20), BoundingBox(-10, 20, 0, 10, 24, 4) }

ToolColliders == { ToolCollider("Tool", 4, 10) }
HolderColliders == { ToolHolderCollider("Holder", 8, 6) }
TipPositions == { <<0, 0, 8>>, <<0, 0, 2>>, <<0, 0, 30>>, <<24, 0, 40>> }
Motions == { <<(<<0, 0, 30>>), (<<0, 0, 10>>), 2>>, <<(<<0, 0, 40>>), (<<30, 0, 40>>), 3>> }

Found(calls, call, value, tool_bbox, holder_bbox, produced, added) ==
    [calls |-> calls, call |-> call, value |-> value, tool_bbox |-> tool_bbox,
     holder_bbox |-> holder_bbox, produced |-> produced, added |-> added]

InitCollision ==
    /\ bboxes = <<>>
    /\ detector = CollisionDetector
    /\ tree = AABBTree(4)
    /\ found = Found(0, Called("none", <<>>), <<>>, None, None, 0, <<>>)
    /\ NoParser /\ NoLexer /\ NoMachine /\ NoStock

AddStaticCollider ==
    /\ Len(detector.static_colliders) < MaxColliders
    /\ \E c \in {StockCollider(Len(bboxes) + 1), FixtureCollider(Len(bboxes) + 1, "Fixture")} :
          \E b \in (IF c.kind = "StockCollider" THEN StockBoxes ELSE FixtureBoxes) :
             /\ bboxes' = Append(bboxes, b)
             /\ detector' = add_static_collider(detector, c)
             /\ found' = [found EXCEPT !.added = Append(@, b)]
    /\ UNCHANGED <<tree, parserVars, lexerVars, machineVars, stockVars>>

\* CollisionDetector.build
Build ==
    /\ found.calls < MaxCalls
    /\ \E r \in {tree_build(tree, bboxes, detector.static_colliders)} :
          /\ bboxes' = r.bboxes
          /\ tree' = r.tree
    /\ found' = [found EXCEPT !.calls = @ + 1, !.call = Called("build", <<>>)]
    /\ UNCHANGED <<detector, parserVars, lexerVars, machineVars, stockVars>>

CheckToolAtPosition ==
    /\ found.calls < MaxCalls
    /\ \E tool \in ToolColliders, holder \in HolderColliders, at \in TipPositions :
          \E r \in {check_tool_at_position(detector, tree, bboxes, tool, holder, at, None)} :
             found' = Found(found.calls + 1,
                            Called("check_tool_at_position", <<tool, holder, at>>),
                            r.events, Some(r.tool_bbox), Some(r.holder_bbox),
                            found.produced + Len(r.events), found.added)
    /\ UNCHANGED <<bboxes, detector, tree, parserVars, lexerVars, machineVars, stockVars>>

CheckContinuousMotion ==
    /\ found.calls < MaxCalls
    /\ \E tool \in ToolColliders, holder \in HolderColliders, m \in Motions :
          \E r \in {check_continuous_motion(detector, tree, bboxes, tool, holder,
                                            m[1], m[2], m[3], None, 0)} :
             found' = [found EXCEPT !.calls = @ + 1,
                                    !.call = Called("check_continuous_motion",
                                                    <<tool, holder, m>>),
                                    !.value = r,
                                    !.produced = @ + Len(r)]
    /\ UNCHANGED <<bboxes, detector, tree, parserVars, lexerVars, machineVars, stockVars>>

GetCollisionStats ==
    /\ found.calls < MaxCalls
    /\ found' = [found EXCEPT !.calls = @ + 1,
                              !.call = Called("get_collision_stats", <<>>),
                              !.value = get_collision_stats(detector)]
    /\ UNCHANGED <<bboxes, detector, tree, parserVars, lexerVars, machineVars, stockVars>>

NextCollision ==
    \/ AddStaticCollider \/ Build \/ CheckToolAtPosition \/ CheckContinuousMotion
    \/ GetCollisionStats

SpecCollision == InitCollision /\ [][NextCollision]_vars

(***************************************************************************)
(* Runs of the tree on its own.  A caller makes an AABBTree(max_depth) and *)
(* a list of colliders, found.colliders, builds the tree from the list and *)
(* queries it; found.built tells that the tree has been built.             *)
(***************************************************************************)
TreeDepths == {0, 1, 4}

TreeBoxes ==
    { BoundingBox(0, 0, 0, 2, 2, 2), BoundingBox(4, 0, 0, 6, 2, 2),
      BoundingBox(0, 6, 0, 2, 12, 2) }

QueryBoxes ==
    { BoundingBox(2, 0, 0, 4, 2, 2), BoundingBox(3, 0, 0, 3, 1, 1),
      BoundingBox(6, 0, 0, 8, 2, 2), BoundingBox(0, 4, 0, 6, 4, 2),
      BoundingBox(-4, 0, 0, -2, 12, 2), BoundingBox(0, 0, 0, 6, 12, 2) }

BoxLists == UNION { [1..n -> TreeBoxes] : n \in 0..MaxColliders }

InitTree ==
    /\ bboxes \in BoxLists
    /\ \E max_depth \in TreeDepths : tree = AABBTree(max_depth)
    /\ detector = None
    /\ found = [calls |-> 0, call |-> Called("none", <<>>), value |-> <<>>,
                colliders |-> [k \in 1..Len(bboxes) |-> StockCollider(k)],
                built |-> FALSE, added |-> bboxes]
    /\ NoParser /\ NoLexer /\ NoMachine /\ NoStock

\* tree.build(colliders)
TreeBuild ==
    /\ found.calls < MaxCalls
    /\ \E r \in {tree_build(tree, bboxes, found.colliders)} :
          /\ bboxes' = r.bboxes
          /\ tree' = r.tree
    /\ found' = [found EXCEPT !.calls = @ + 1, !.call = Called("build", <<>>),
                              !.built = TRUE]
    /\ UNCHANGED <<detector, parserVars, lexerVars, machineVars, stockVars>>

\* tree.query_collisions(moving_bbox)
TreeQuery ==
    /\ found.calls < MaxCalls
    /\ \E moving_bbox \in QueryBoxes :
          found' = [found EXCEPT !.calls = @ + 1,
                                 !.call = Called("query_collisions", moving_bbox),
                                 !.value = query_collisions(tree, bboxes, moving_bbox)]
    /\ UNCHANGED <<bboxes, detector, tree, parserVars, lexerVars, machineVars, stockVars>>

NextTree == TreeBuild \/ TreeQuery

SpecTree == InitTree /\ [][NextTree]_vars

\* the closed boxes a and b have a point in common
Overlap(a, b) ==
    /\ Max(a.min_x, b.min_x) <= Min(a.max_x, b.max_x)
    /\ Max(a.min_y, b.min_y) <= Min(a.max_y, b.max_y)
    /\ Max(a.min_z, b.min_z) <= Min(a.max_z, b.max_z)

\* C24: for any list of colliders built into the tree (any count, also more
\* than 2^max_depth) and any query box, query_collisions returns every
\* collider whose bounding box, as it is now or as it was given, intersects
\* the query box.
C24_NoFalseNegatives ==
    (found.built /\ found.call.op = "query_collisions") =>
        \A k \in 1..Len(found.colliders) :
            (\/ Overlap(bboxes[found.colliders[k].bbox], found.call.args)
             \/ Overlap(found.added[k], found.call.args))
            => \E n \in 1..Len(found.value) : found.value[n] = found.colliders[k]

\* a tree cut off by max_depth with more than 2^max_depth colliders has been
\* queried, and the query left some colliders out and returned others
C24_Witness ==
    /\ found.built /\ found.call.op = "query_collisions"
    /\ tree.max_depth = 1 /\ Len(found.colliders) = 4
    /\ Len(Val(tree.root).children) = 2
    /\ Len(found.value) = 2
    /\ \E k \in 1..4 : Overlap(found.added[k], found.call.args)

C24_WitnessLeaf ==
    /\ found.built /\ found.call.op = "query_collisions"
    /\ tree.max_depth = 0 /\ Len(found.colliders) = 3
    /\ Len(found.value) = 3
    /\ \E k \in 1..3 : ~Overlap(found.added[k], found.call.args)

\* C25: check_tool_at_position places the tool box with its origin at the
\* tip: for the tip position p the tool box spans z from p.z to p.z +
\* tool.length and x, y within the tool radius of p, and the holder box,
\* before the margin is added, spans z from p.z + tool.length to p.z +
\* tool.length + holder.length.
C25_ToolBoxAtTip ==
    found.call.op = "check_tool_at_position" =>
        /\ Val(found.tool_bbox) =
              BoundingBox(found.call.args[3][1] - found.call.args[1].diameter \div 2,
                          found.call.args[3][2] - found.call.args[1].diameter \div 2,
                          found.call.args[3][3],
                          found.call.args[3][1] + found.call.args[1].diameter \div 2,
                          found.call.args[3][2] + found.call.args[1].diameter \div 2,
                          found.call.args[3][3] + found.call.args[1].length)
        /\ Val(found.holder_bbox).min_z = found.call.args[3][3] + found.call.args[1].length
        /\ Val(found.holder_bbox).max_z =
              found.call.args[3][3] + found.call.args[1].length + found.call.args[2].length

\* C26: every CollisionEvent produced by check_tool_at_position or
\* check_continuous_motion is appended to collision_history, which only grows
\* and whose earlier entries never change, so total_collisions of
\* get_collision_stats is the number of events produced so far.
C26_HistoryHoldsEveryEvent ==
    /\ [](/\ Len(detector.collision_history) = found.produced
          /\ found.call.op = "get_collision_stats"
                => found.value.total_collisions = found.produced)
    /\ [][/\ Len(detector'.collision_history) >= Len(detector.collision_history)
          /\ SubSeq(detector'.collision_history, 1, Len(detector.collision_history))
                = detector.collision_history]_vars

\* C29: building the tree does not change any static collider: after build,
\* and after any number of rebuilds, the bounding box of every collider is
\* the box it was added with.
C29_BuildKeepsColliderBoxes ==
    \A k \in 1..Len(detector.static_colliders) :
        bboxes[detector.static_colliders[k].bbox] = found.added[k]

====
